---- MODULE Spec2Model ----
(***************************************************************************)
(* Model of the LuminaWeb secure envelope protocol and session/delivery    *)
(* layer: AuthService + SecureStorage (credentials, sessions, tokens),     *)
(* LuminaWebProtocol (envelopes), WebSocketManager (delivery coordinator)  *)
(* and the useWebSocket client agent.                                       *)
(*                                                                         *)
(* Time is counted in units of 5 minutes (the envelope freshness window).   *)
(* Strings that the code inspects or concatenates (addresses, envelope     *)
(* fields) are sequences of symbols: a symbol is one character, or an      *)
(* indivisible run of characters of known width ("message": 7, a nonce:    *)
(* 64, an ISO timestamp: 24).                                              *)
(***************************************************************************)
EXTENDS Integers, Sequences, FiniteSets, TLC

\* ------------------------------------------------------------------ bounds
MaxProcs == 2
MaxUsers == 2
MaxSessions == 3
MaxMessages == 1
MaxConns == 2
MaxSockets == 3
MaxRetrySockets == 6
\* SecureStorage.addUsedNonce prunes its set above 10000 entries; the model
\* keeps the rule and scales the size.
NonceSetLimit == 4

\* ------------------------------------------------------- program constants
ACCESS_TOKEN_EXPIRY == 3
REFRESH_TOKEN_EXPIRY == 2016
SessionLifetime == 2016
CleanupAge == 12
MaxTimestampAge == 1
NonceLength == 64
MAX_MESSAGE_SIZE == 10485760
maxReconnectAttempts == 5
IV_SIZE == 16
BaseReconnectDelay == 1000
MaxReconnectDelay == 30000

VARIABLES
  \* SecureStorage / AuthService
  users,        \* SecureStorage.users: sequence of StoredUser, index = user id
  sessions,     \* SecureStorage.sessions: session id -> AuthSession
  issued,       \* tokens handed to callers by register/login/refreshToken
  now,          \* Date.now()
  nextJti,      \* number of session ids drawn from generateSecureToken
  nextKey,      \* number of key pairs drawn from generateKeyPair
  reg,          \* the register calls in flight, one per caller
  ret,          \* what the last step returned to its caller
  \* LuminaWebProtocol
  sent,         \* the envelopes createMessage has returned
  received,     \* the envelope now at the receiver: [env, origin], or none
  nextNonce,    \* number of nonces drawn from generateNonce
  usedNonces,   \* the nonce set handed to isReplayAttack, in insertion order
  presented,    \* the nonces presented to isReplayAttack so far
  nonceStore,   \* SecureStorage.usedNonces in insertion order, and when each nonce was recorded
  \* WebSocketManager
  conns,        \* every socket that asked for an upgrade, by arrival
  clients,      \* WebSocketManager.clients: user id -> registered socket
  frames,       \* the frames the last step sent: <<[to, frame], ...>>
  \* useWebSocket
  agent,        \* the mounted hook: its refs, its state and the sockets it made
  \* LuminaWebClient
  request,      \* the client's session, its makeRequest calls in flight and their counts
  \* SecureStorage.messages
  messages      \* message id -> StoredMessage, and the number of ids drawn

authVars == <<users, sessions, issued, now, nextJti, nextKey, reg>>
envVars == <<sent, received, nextNonce, usedNonces, presented, nonceStore>>
wsVars == <<conns, clients, frames>>

vars == <<users, sessions, issued, now, nextJti, nextKey, reg, ret,
          sent, received, nextNonce, usedNonces, presented, nonceStore, conns, clients, frames, agent,
          request, messages>>

\* ---------------------------------------------------------------- strings
At == "@"
Dot == "."
Letters == {"a", "b", "c", "m", "o", "x"}

RECURSIVE CountOf(_, _)
CountOf(s, ch) ==
  IF s = << >> THEN 0
  ELSE (IF Head(s) = ch THEN 1 ELSE 0) + CountOf(Tail(s), ch)

IndexOf(s, ch) == CHOOSE i \in 1..Len(s) : s[i] = ch /\ \A j \in 1..(i-1) : s[j] # ch

HasDoubleDot(s) == \E i \in 1..(Len(s)-1) : s[i] = Dot /\ s[i+1] = Dot

\* SecurityUtils.validateEmail over the alphabet Letters + "@" + ".":
\* local part: one or more of letters and dots; domain: two or more non-empty
\* labels of letters separated by dots; 5 <= length <= 320; no "..".
\* A validation that accepts every string.
ValidateEmailAny(email) == TRUE
ValidateEmail(email) ==
  /\ CountOf(email, At) = 1
  /\ LET at == IndexOf(email, At)
         local == SubSeq(email, 1, at - 1)
         domain == SubSeq(email, at + 1, Len(email))
     IN /\ Len(local) >= 1
        /\ \A i \in 1..Len(local) : local[i] \in Letters \cup {Dot}
        /\ Len(domain) >= 3
        /\ \A i \in 1..Len(domain) : domain[i] \in Letters \cup {Dot}
        /\ domain[1] # Dot
        /\ domain[Len(domain)] # Dot
        /\ CountOf(domain, Dot) >= 1
  /\ Len(email) <= 320
  /\ Len(email) >= 5
  /\ ~HasDoubleDot(email)

\* SecurityUtils.validatePassword: the list of failed policy rules.
Upper == {"A", "B"}
Lower == Letters
Digit == {"1", "2"}
Special == {"!"}
HasClass(pw, class) == \E i \in 1..Len(pw) : pw[i] \in class
ValidatePasswordErrors(pw) ==
  (IF Len(pw) < 12
   THEN <<"Password must be at least 12 characters long">> ELSE << >>)
  \o (IF ~HasClass(pw, Upper)
      THEN <<"Password must contain at least one uppercase letter">> ELSE << >>)
  \o (IF ~HasClass(pw, Lower)
      THEN <<"Password must contain at least one lowercase letter">> ELSE << >>)
  \o (IF ~HasClass(pw, Digit)
      THEN <<"Password must contain at least one number">> ELSE << >>)
  \o (IF ~HasClass(pw, Special)
      THEN <<"Password must contain at least one special character">> ELSE << >>)

\* Array.prototype.join
RECURSIVE Join(_, _)
Join(strings, separator) ==
  IF strings = << >> THEN ""
  ELSE IF Len(strings) = 1 THEN strings[1]
  ELSE strings[1] \o separator \o Join(Tail(strings), separator)

\* ----------------------------------------------------------------- inputs
EmailA == <<"a", "@", "b", ".", "c", "o">>
EmailB == <<"m", "@", "x", ".", "c", "o", "m">>
EmailBad == <<"a", "b", ".", "c", "o">>
EmailInputs == {EmailA, EmailB, EmailBad}

PwGood == <<"A", "a", "1", "!", "a", "a", "a", "a", "a", "a", "a", "a">>
PwOther == <<"B", "b", "2", "!", "b", "b", "b", "b", "b", "b", "b", "b">>
PwWeak == <<"a", "b", "c", "1">>
RegisterPasswords == {PwGood, PwWeak}
LoginPasswords == {PwGood, PwOther}

Procs == 1..MaxProcs

\* ----------------------------------------------------------------- crypto
\* SecureCrypto.hashPassword / verifyPassword (bcrypt): a hash verifies
\* exactly the password it was made from.
HashPassword(pw) == [hashOf |-> pw]
\* A comparison that accepts any password.
VerifyPasswordAny(pw, hash) == TRUE
VerifyPassword(pw, hash) == hash.hashOf = pw

\* SecureCrypto.generateKeyPair: the k-th fresh key pair.
GenerateKeyPair(k) == [publicKey |-> <<"pub", k>>, privateKey |-> <<"priv", k>>]

\* SecureCrypto.encryptWithPassword / decryptWithPassword: the blob opens
\* under the password it was sealed with and under no other.
EncryptWithPassword(data, pw) == [sealed |-> data, under |-> pw]
DecryptsWithPassword(blob, pw) == blob.under = pw

\* A generator that returns the same value at every draw.
GenerateSecureTokenReused(n) == 1
\* SecureCrypto.generateSecureToken: 64 random bytes; the n-th draw is a
\* value no earlier draw returned.
GenerateSecureToken(n) == n + 1

\* ---------------------------------------------------------------- storage
NoSessions == [j \in {} |-> 0]

\* A lookup that finds no one.
GetUserByEmailMissing(email) == 0
GetUserByEmail(email) ==
  IF \E i \in 1..Len(users) : users[i].email = email
  THEN CHOOSE i \in 1..Len(users) :
         /\ users[i].email = email
         /\ \A j \in 1..(i-1) : users[j].email # email
  ELSE 0

StoredUser(id, email, passwordHash, keyPair, password) ==
  [id |-> id, email |-> email, passwordHash |-> passwordHash,
   publicKey |-> keyPair.publicKey,
   encryptedPrivateKey |-> EncryptWithPassword(keyPair.privateKey, password),
   lastSeen |-> now, isOnline |-> FALSE]

\* A store that keeps only the session it is given.
StoreSessionAlone(ss, jti, data) ==
  [j \in {jti} |-> [data EXCEPT !.createdAt = now]]
StoreSession(ss, jti, data) ==
  [j \in DOMAIN ss \cup {jti} |->
     IF j = jti THEN [data EXCEPT !.createdAt = now] ELSE ss[j]]

\* A delete that clears the whole map.
DeleteSessionAll(ss, sid) == NoSessions
DeleteSession(ss, sid) == [j \in DOMAIN ss \ {sid} |-> ss[j]]

UpdateUserPresence(us, uid, online) ==
  IF uid \in 1..Len(us)
  THEN [us EXCEPT ![uid].isOnline = online, ![uid].lastSeen = now]
  ELSE us

\* ------------------------------------------------------------------ tokens
\* AuthService.generateTokens: an access and a refresh token that carry the
\* same payload {userId, email, jti} and differ in lifetime only.
Token(kind, userId, email, jti, exp) ==
  [kind |-> kind, userId |-> userId, email |-> email, jti |-> jti,
   iat |-> now, exp |-> exp, sig |-> "ok"]

GenerateTokens(userId, email, jti) ==
  [accessToken |-> Token("access", userId, email, jti, now + ACCESS_TOKEN_EXPIRY),
   refreshToken |-> Token("refresh", userId, email, jti, now + REFRESH_TOKEN_EXPIRY)]

Forged(tok) == [tok EXCEPT !.sig = "bad"]

\* jwt.verify(token, JWT_SECRET): signature and expiry (expired once the
\* clock has reached exp).
JwtVerify(tok) == tok.sig = "ok" /\ now < tok.exp

SessionLive(jti) == jti \in DOMAIN sessions /\ ~(sessions[jti].expiresAt < now)

\* A verification that trusts the token alone and never looks up the session.
VerifyTokenNoSession(tok) == JwtVerify(tok)
\* AuthService.verifyToken: valid iff jwt.verify passes and the session
\* named by the token's jti is stored and not past its expiresAt.
VerifyTokenValid(tok) == JwtVerify(tok) /\ SessionLive(tok.jti)

\* AuthService.refreshToken: the same two tests decide whether it succeeds.
RefreshAccepts(tok) == JwtVerify(tok) /\ SessionLive(tok.jti)

NewSession(userId, email, publicKey, jti) ==
  [userId |-> userId, email |-> email, publicKey |-> publicKey,
   sessionId |-> jti, createdAt |-> now, expiresAt |-> now + SessionLifetime]

\* What a caller may present: any token it was given, or a forgery of the
\* first access token.
TokenInputs ==
  issued \cup {Forged(t) : t \in {u \in issued : u.jti = 1 /\ u.kind = "access"}}

\* --------------------------------------------------------- envelope codec
\* Width in characters of an indivisible symbol; any other symbol is one
\* character wide.
WideSymbols ==
  [s \in {"auth", "handshake", "message", "ack", "presence", "bogus",
          "T0", "T1", "T2", "not-a-date",
          "N1", "N2", "N3", "N-short", "{p1}", "{p2}", "{huge}"} |->
     CASE s = "auth" -> 4 [] s = "handshake" -> 9 [] s = "message" -> 7
       [] s = "ack" -> 3 [] s = "presence" -> 8 [] s = "bogus" -> 5
       [] s \in {"T0", "T1", "T2"} -> 24 [] s = "not-a-date" -> 10
       [] s \in {"N1", "N2", "N3"} -> NonceLength [] s = "N-short" -> 7
       [] s \in {"{p1}", "{p2}"} -> 4
       [] s = "{huge}" -> MAX_MESSAGE_SIZE + 1]

RECURSIVE StrLen(_)
StrLen(s) ==
  IF s = << >> THEN 0
  ELSE (IF Head(s) \in DOMAIN WideSymbols THEN WideSymbols[Head(s)] ELSE 1)
       + StrLen(Tail(s))

VERSION == <<"1", ".", "0">>
MessageTypes == {<<"auth">>, <<"handshake">>, <<"message">>, <<"ack">>, <<"presence">>}

\* new Date().toISOString() and new Date(timestamp).getTime().
IsoStrings == <<"T0", "T1", "T2">>
\* The instants of the session clock that lie past the last of IsoStrings.
LateInstants == {ACCESS_TOKEN_EXPIRY, SessionLifetime + 1}
ToISOString(t) ==
  IF t < Len(IsoStrings) THEN <<IsoStrings[t + 1]>> ELSE <<"T" \o ToString(t)>>
Parseable(ts) ==
  /\ Len(ts) = 1
  /\ \/ \E i \in 1..Len(IsoStrings) : IsoStrings[i] = ts[1]
     \/ \E t \in LateInstants : ToISOString(t) = ts
GetTime(ts) ==
  IF \E i \in 1..Len(IsoStrings) : IsoStrings[i] = ts[1]
  THEN (CHOOSE i \in 1..Len(IsoStrings) : IsoStrings[i] = ts[1]) - 1
  ELSE CHOOSE t \in LateInstants : ToISOString(t) = ts

\* SecurityUtils.isValidTimestamp: an unparsable timestamp gives NaN, and
\* every comparison with NaN is false.
\* A window that is open at its far edge.
IsValidTimestampStrict(ts) ==
  IF ~Parseable(ts) THEN FALSE
  ELSE LET age == now - GetTime(ts) IN age >= 0 /\ age < MaxTimestampAge

IsValidTimestamp(ts) ==
  IF ~Parseable(ts) THEN FALSE
  ELSE LET age == now - GetTime(ts) IN age >= 0 /\ age <= MaxTimestampAge

\* SecureCrypto.generateNonce: 32 random bytes in hex, the k-th draw.
NonceStrings == <<"N1", "N2", "N3">>
GenerateNonce(k) == <<NonceStrings[k]>>

\* SecureCrypto.sign / verify (RSA-SHA256): a signature verifies exactly the
\* data it was made over, under the public half of the signing key; verify
\* returns false on anything else.
Sign(data, privateKey) == [over |-> data, by |-> privateKey[2]]
Verify(data, signature, publicKey) ==
  signature.over = data /\ signature.by = publicKey[2]
ForgedSignature == [over |-> << >>, by |-> 0]

\* The string both createMessage and validateMessage sign: the seven fields
\* written one after the other with nothing between them.
SignatureData(m) ==
  m.version \o m.type \o m.from \o m.to \o m.timestamp \o m.nonce \o m.payload

\* LuminaWebProtocol.createMessage
CreateMessageOf(type, from, to, payloadString, privateKey, nonce) ==
  LET unsigned == [version |-> VERSION, type |-> type, from |-> from, to |-> to,
                   timestamp |-> ToISOString(now), nonce |-> nonce,
                   payload |-> payloadString]
  IN [version |-> VERSION, type |-> type, from |-> from, to |-> to,
      timestamp |-> ToISOString(now), nonce |-> nonce,
      signature |-> Sign(SignatureData(unsigned), privateKey),
      payload |-> payloadString]

\* LuminaWebProtocol.validateMessage: the errors it pushes, in order.
ErrorIf(cond, text) == IF cond THEN <<text>> ELSE << >>
\* A validation that returns at the first failed check.
ValidateMessageErrorsShort(m, publicKey) ==
  IF m.version # VERSION THEN <<"Invalid protocol version">>
  ELSE IF m.type \notin MessageTypes THEN <<"Invalid message type">>
  ELSE IF ~ValidateEmail(m.from) THEN <<"Invalid sender email">>
  ELSE IF ~ValidateEmail(m.to) THEN <<"Invalid recipient email">>
  ELSE IF ~IsValidTimestamp(m.timestamp) THEN <<"Invalid or expired timestamp">>
  ELSE IF m.nonce = << >> \/ StrLen(m.nonce) # NonceLength THEN <<"Invalid nonce">>
  ELSE IF StrLen(m.payload) > MAX_MESSAGE_SIZE THEN <<"Message payload too large">>
  ELSE IF ~Verify(SignatureData(m), m.signature, publicKey)
  THEN <<"Invalid message signature">>
  ELSE << >>
ValidateMessageErrors(m, publicKey) ==
  ErrorIf(m.version # VERSION, "Invalid protocol version")
  \o ErrorIf(m.type \notin MessageTypes, "Invalid message type")
  \o ErrorIf(~ValidateEmail(m.from), "Invalid sender email")
  \o ErrorIf(~ValidateEmail(m.to), "Invalid recipient email")
  \o ErrorIf(~IsValidTimestamp(m.timestamp), "Invalid or expired timestamp")
  \o ErrorIf(m.nonce = << >> \/ StrLen(m.nonce) # NonceLength, "Invalid nonce")
  \o ErrorIf(StrLen(m.payload) > MAX_MESSAGE_SIZE, "Message payload too large")
  \o ErrorIf(~Verify(SignatureData(m), m.signature, publicKey),
             "Invalid message signature")

Contains(seq, x) == \E i \in 1..Len(seq) : seq[i] = x

\* Set.add: a value already in the set keeps its place, a new one goes last.
SetAddForgetful(set, x) == <<x>>
SetAdd(set, x) == IF Contains(set, x) THEN set ELSE Append(set, x)

\* ------------------------------------------------------------------- Init
IdleReg == [pc |-> "idle", email |-> << >>, password |-> << >>, existing |-> 0,
            keyPair |-> 0, passwordHash |-> 0, userId |-> 0, jti |-> 0,
            tokens |-> 0]

AuthInit ==
  /\ users = << >>
  /\ sessions = NoSessions
  /\ issued = {}
  /\ now = 0
  /\ nextJti = 0
  /\ nextKey = 0
  /\ reg = [p \in Procs |-> IdleReg]
  /\ ret = [op |-> "init"]

\* --------------------------------------------------- AuthService.register
\* Register calls that have passed the existence check and will store a user.
Creating == {q \in Procs : \/ reg[q].pc = "awaitLookup" /\ reg[q].existing = 0
                           \/ reg[q].pc = "awaitHash"}
\* Calls that will still draw a session id.
WillDrawJti == Creating \cup {q \in Procs : reg[q].pc = "awaitStore"}
SessionRoom == nextJti + Cardinality(WillDrawJti) < MaxSessions

Finished(p, email, result) == IdleReg

\* register, up to its first await: both validations, then the call of
\* SecureStorage.getUserByEmail, whose answer is read after the await.
RegisterCall(p, email, password) ==
  /\ UNCHANGED envVars
  /\ UNCHANGED <<wsVars, agent, request, messages>>
  /\ reg[p].pc = "idle"
  /\ IF ~ValidateEmail(email)
     THEN /\ reg' = [reg EXCEPT ![p] = Finished(p, email, "Invalid email format")]
          /\ ret' = [op |-> "register", proc |-> p, success |-> FALSE,
                     message |-> "Invalid email format"]
     ELSE IF ValidatePasswordErrors(password) # << >>
     THEN /\ reg' = [reg EXCEPT ![p] = Finished(p, email, "Weak password")]
          /\ ret' = [op |-> "register", proc |-> p, success |-> FALSE,
                     message |-> Join(ValidatePasswordErrors(password), ", ")]
     ELSE /\ \/ GetUserByEmail(email) # 0
             \/ /\ Len(users) + Cardinality(Creating) < MaxUsers
                /\ SessionRoom
          /\ reg' = [reg EXCEPT ![p] = [IdleReg EXCEPT !.pc = "awaitLookup",
                        !.email = email, !.password = password,
                        !.existing = GetUserByEmail(email)]]
          /\ ret' = [op |-> "register.getUserByEmail", proc |-> p]
  /\ UNCHANGED <<users, sessions, issued, now, nextJti, nextKey>>

\* after `await getUserByEmail`: the existence test, generateKeyPair, and the
\* call of hashPassword.
RegisterAfterLookup(p) ==
  /\ UNCHANGED envVars
  /\ UNCHANGED <<wsVars, agent, request, messages>>
  /\ reg[p].pc = "awaitLookup"
  /\ IF reg[p].existing # 0
     THEN /\ reg' = [reg EXCEPT ![p] = Finished(p, reg[p].email, "User already exists")]
          /\ ret' = [op |-> "register", proc |-> p, success |-> FALSE,
                     message |-> "User already exists"]
          /\ UNCHANGED nextKey
     ELSE /\ nextKey' = nextKey + 1
          /\ reg' = [reg EXCEPT ![p].pc = "awaitHash",
                                ![p].keyPair = GenerateKeyPair(nextKey + 1),
                                ![p].passwordHash = HashPassword(reg[p].password)]
          /\ ret' = [op |-> "register.hashPassword", proc |-> p]
  /\ UNCHANGED <<users, sessions, issued, now, nextJti>>

\* after `await hashPassword`: SecureStorage.storeUser writes the credential
\* under a fresh id.
RegisterAfterHash(p) ==
  /\ UNCHANGED envVars
  /\ UNCHANGED <<wsVars, agent, request, messages>>
  /\ reg[p].pc = "awaitHash"
  /\ users' = Append(users, StoredUser(Len(users) + 1, reg[p].email,
                       reg[p].passwordHash, reg[p].keyPair, reg[p].password))
  /\ reg' = [reg EXCEPT ![p].pc = "awaitStore", ![p].userId = Len(users) + 1]
  /\ ret' = [op |-> "register.storeUser", proc |-> p]
  /\ UNCHANGED <<sessions, issued, now, nextJti, nextKey>>

\* after `await storeUser`: generateTokens draws the session id and signs
\* the token pair.
RegisterAfterStore(p) ==
  /\ UNCHANGED envVars
  /\ UNCHANGED <<wsVars, agent, request, messages>>
  /\ reg[p].pc = "awaitStore"
  /\ nextJti' = nextJti + 1
  /\ reg' = [reg EXCEPT ![p].pc = "awaitTokens",
                ![p].jti = GenerateSecureToken(nextJti),
                ![p].tokens = GenerateTokens(reg[p].userId, reg[p].email,
                                             GenerateSecureToken(nextJti))]
  /\ ret' = [op |-> "register.generateTokens", proc |-> p]
  /\ UNCHANGED <<users, sessions, issued, now, nextKey>>

\* after `await generateTokens`: storeSession, and the successful return.
RegisterAfterTokens(p) ==
  /\ UNCHANGED envVars
  /\ UNCHANGED <<wsVars, agent, request, messages>>
  /\ reg[p].pc = "awaitTokens"
  /\ sessions' = StoreSession(sessions, reg[p].jti,
                   NewSession(reg[p].userId, reg[p].email,
                              reg[p].keyPair.publicKey, reg[p].jti))
  /\ issued' = issued \cup {reg[p].tokens.accessToken, reg[p].tokens.refreshToken}
  /\ reg' = [reg EXCEPT ![p] = Finished(p, reg[p].email, "User registered successfully")]
  /\ ret' = [op |-> "register", proc |-> p, success |-> TRUE,
             message |-> "User registered successfully",
             user |-> [id |-> reg[p].userId, email |-> reg[p].email,
                       publicKey |-> reg[p].keyPair.publicKey],
             tokens |-> reg[p].tokens]
  /\ UNCHANGED <<users, now, nextJti, nextKey>>

\* ------------------------------------------------------ AuthService.login
\* ret notes the arguments of the call beside its result.
Login(email, password) ==
  LET uid == GetUserByEmail(email)
      jti == GenerateSecureToken(nextJti)
      tokens == GenerateTokens(uid, email, jti)
  IN
  /\ IF uid = 0 \/ ~VerifyPassword(password, users[uid].passwordHash)
     THEN /\ ret' = [op |-> "login", email |-> email, password |-> password,
                     result |-> [success |-> FALSE,
                                 message |-> "Invalid credentials"]]
          /\ UNCHANGED <<users, sessions, issued, nextJti>>
     ELSE /\ SessionRoom
          /\ users' = UpdateUserPresence(users, uid, TRUE)
          /\ nextJti' = nextJti + 1
          /\ sessions' = StoreSession(sessions, jti,
                           NewSession(uid, email, users[uid].publicKey, jti))
          /\ issued' = issued \cup {tokens.accessToken, tokens.refreshToken}
          /\ ret' = [op |-> "login", email |-> email, password |-> password,
                     result |-> [success |-> TRUE, message |-> "Login successful",
                                 user |-> [id |-> uid, email |-> users[uid].email,
                                           publicKey |-> users[uid].publicKey,
                                           lastSeen |-> users[uid].lastSeen],
                                 tokens |-> tokens,
                                 encryptedPrivateKey |-> users[uid].encryptedPrivateKey]]
  /\ UNCHANGED <<now, nextKey, reg, sent, received, nextNonce, usedNonces, presented, nonceStore,
                    conns, clients, frames, agent, request, messages>>

\* ------------------------------------------------ AuthService.verifyToken
VerifyToken(tok) ==
  /\ UNCHANGED envVars
  /\ UNCHANGED <<wsVars, agent, request, messages>>
  /\ ret' = [op |-> "verifyToken", token |-> tok, valid |-> VerifyTokenValid(tok),
             message |-> IF ~JwtVerify(tok) THEN "Invalid token"
                         ELSE IF ~SessionLive(tok.jti) THEN "Session expired"
                         ELSE "none"]
  /\ UNCHANGED <<users, sessions, issued, now, nextJti, nextKey, reg>>

\* ----------------------------------------------- AuthService.refreshToken
RefreshToken(tok) ==
  LET jti == GenerateSecureToken(nextJti)
      newTokens == GenerateTokens(tok.userId, tok.email, jti)
  IN
  IF ~JwtVerify(tok)
  THEN /\ ret' = [op |-> "refreshToken", token |-> tok, success |-> FALSE,
                  message |-> "Token refresh failed"]
       /\ UNCHANGED <<users, sessions, issued, now, nextJti, nextKey, reg, sent, received, nextNonce, usedNonces, presented, nonceStore,
                    conns, clients, frames, agent, request, messages>>
  ELSE IF ~RefreshAccepts(tok)
  THEN /\ ret' = [op |-> "refreshToken", token |-> tok, success |-> FALSE,
                  message |-> "Session expired"]
       /\ UNCHANGED <<users, sessions, issued, now, nextJti, nextKey, reg, sent, received, nextNonce, usedNonces, presented, nonceStore,
                    conns, clients, frames, agent, request, messages>>
  ELSE /\ SessionRoom
       /\ nextJti' = nextJti + 1
       /\ sessions' = StoreSession(sessions, jti,
                        [sessions[tok.jti] EXCEPT !.sessionId = jti,
                                                  !.expiresAt = now + SessionLifetime])
       /\ issued' = issued \cup {newTokens.accessToken, newTokens.refreshToken}
       /\ ret' = [op |-> "refreshToken", token |-> tok, success |-> TRUE,
                  tokens |-> newTokens]
       /\ UNCHANGED <<users, now, nextKey, reg, sent, received, nextNonce, usedNonces, presented, nonceStore,
                    conns, clients, frames, agent, request, messages>>

\* ----------------------------------------------------- AuthService.logout
\* A logout that also drops the registry entry of the session's identity.
LogoutDisconnecting(sessionId) ==
  /\ UNCHANGED envVars
  /\ UNCHANGED <<conns, frames, agent, request, messages>>
  /\ clients' = IF sessionId \in DOMAIN sessions
                THEN SelectSeq(clients, LAMBDA e : e.userId # sessions[sessionId].userId)
                ELSE clients
  /\ sessions' = DeleteSession(sessions, sessionId)
  /\ ret' = [op |-> "logout", sessionId |-> sessionId, success |-> TRUE]
  /\ UNCHANGED <<users, issued, now, nextJti, nextKey, reg>>
Logout(sessionId) ==
  /\ UNCHANGED envVars
  /\ UNCHANGED <<wsVars, agent, request, messages>>
  /\ sessions' = DeleteSession(sessions, sessionId)
  /\ ret' = [op |-> "logout", sessionId |-> sessionId, success |-> TRUE]
  /\ UNCHANGED <<users, issued, now, nextJti, nextKey, reg>>

\* --------------------------------------------------- SecureStorage.cleanup
Cleanup ==
  /\ UNCHANGED envVars
  /\ UNCHANGED <<wsVars, agent, request, messages>>
  /\ sessions' = [j \in {k \in DOMAIN sessions :
                           ~(sessions[k].createdAt < now - CleanupAge)} |-> sessions[j]]
  /\ ret' = [op |-> "cleanup"]
  /\ UNCHANGED <<users, issued, now, nextJti, nextKey, reg>>

\* ------------------------------------------------------------------ clock
\* The clock only moves forward, to the next instant at which some deadline
\* of the code is met or just passed. A register call in flight completes
\* well within one unit of time, so the clock stands while one is running.
Instants == {0, ACCESS_TOKEN_EXPIRY, SessionLifetime + 1}
Tick(t) ==
  /\ UNCHANGED envVars
  /\ UNCHANGED <<wsVars, agent, request, messages>>
  /\ \A p \in Procs : reg[p].pc = "idle"
  /\ t > now
  /\ now' = t
  /\ ret' = [op |-> "tick"]
  /\ UNCHANGED <<users, sessions, issued, nextJti, nextKey, reg>>

SessionIds == DOMAIN sessions \cup {MaxSessions + 1}

EnvInit ==
  /\ sent = {}
  /\ received = << >>
  /\ nextNonce = 0
  /\ usedNonces = << >>
  /\ presented = {}
  /\ nonceStore = [usedNonces |-> << >>, recordedAt |-> [n \in {} |-> 0]]

WsInit ==
  /\ conns = << >>
  /\ clients = [u \in {} |-> 0]
  /\ frames = << >>

\* The hook as mounted while unauthenticated: its first effect ran
\* disconnect() on empty refs.
NoTimer == [pending |-> FALSE, auth |-> FALSE, delay |-> 0]
ClientInit ==
  agent = [isAuthenticated |-> FALSE, tokensStored |-> FALSE,
           isConnected |-> FALSE, connectionState |-> "disconnected",
           lastMessage |-> "null", sockets |-> << >>, wsRef |-> 0,
           reconnectTimeout |-> NoTimer, pingInterval |-> FALSE, intervals |-> 0,
           reconnectAttempts |-> 0, explicitlyDisconnected |-> FALSE]

\* LuminaWebClient as constructed: session = null and no request in flight.
\* Tokens are numbered by the grant that produced them.
NoClientSession == [held |-> FALSE, accessToken |-> 0, refreshToken |-> 0]
RequestInit ==
  request = [session |-> NoClientSession, calls |-> << >>, refreshCalls |-> 0,
             retries |-> 0, granted |-> 0,
             result |-> [status |-> 0, success |-> FALSE]]

\* SecureStorage.messages = new Map(), and no message id drawn yet.
NoMessages == [m \in {} |-> 0]
MessagesInit == messages = [stored |-> NoMessages, drawn |-> 0]

Init == AuthInit /\ EnvInit /\ WsInit /\ ClientInit /\ RequestInit /\ MessagesInit

\* ------------------------------------------ SecureCrypto, encrypt / decrypt
\* A thrown error and a returned value, in one shape.
Thrown(message) == [ok |-> FALSE, error |-> message, value |-> << >>]
Returned(value) == [ok |-> TRUE, error |-> "", value |-> value]

\* Hex strings are sequences of symbols: one symbol per random byte, one for
\* a whole ciphertext and one for a whole digest.
\* crypto.randomBytes(IV_SIZE).toString('hex'), the k-th draw.
IvBytes == <<"1a", "2b">>
RandomIv(k) == [i \in 1..IV_SIZE |-> IvBytes[k]]

\* cipher.update + cipher.final in hex: AES-256-CBC as an ideal cipher, the
\* ciphertext names its plaintext, key and iv and nothing else produces it.
CipherHex(data, key, iv) ==
  <<"aes(" \o Join(data, "") \o "," \o key \o "," \o Join(iv, "") \o ")">>

\* createHmac('sha256', key).update(text).digest('hex'): the digest depends
\* on the characters of the text, not on how the caller had them split.
HmacHex(text, key) == <<"hmac(" \o Join(text, "") \o "," \o key \o ")">>

\* SecureCrypto.encrypt
EncryptOf(data, key, iv) ==
  LET encrypted == CipherHex(data, key, iv)
  IN [iv |-> iv, data |-> encrypted, tag |-> HmacHex(encrypted \o iv, key)]

\* The payloads and keys that are encrypted.
Plaintexts == {<<"{p1}">>, <<"{p2}">>}
SharedKeys == {"k1", "k2"}
GenuineBlobs ==
  {EncryptOf(p, k, RandomIv(i)) : p \in Plaintexts, k \in SharedKeys,
                                  i \in 1..Len(IvBytes)}

\* The upper-case spelling of a hex symbol, and a symbol that is not hex.
ToUpperCase(symbol) == "^" \o symbol
NotHex == "zz"
LowerHex ==
  UNION {{b.iv[i] : i \in 1..Len(b.iv)} \cup {b.data[1], b.tag[1]} : b \in GenuineBlobs}

\* Buffer.from(string, 'hex'): decoding is case-insensitive and stops at the
\* first character that is not a hex digit.
RECURSIVE FromHex(_)
FromHex(string) ==
  IF string = << >> \/ Head(string) = NotHex THEN << >>
  ELSE <<IF \E c \in LowerHex : Head(string) = ToUpperCase(c)
         THEN CHOOSE c \in LowerHex : Head(string) = ToUpperCase(c)
         ELSE Head(string)>> \o FromHex(Tail(string))

\* decipher.update + decipher.final: the plaintext of a ciphertext made
\* under this key and iv; anything else fails the padding check.
Decipher(data, key, iv) ==
  IF \E p \in Plaintexts : data = CipherHex(p, key, iv)
  THEN Returned(CHOOSE p \in Plaintexts : data = CipherHex(p, key, iv))
  ELSE Thrown("bad decrypt")

\* SecureCrypto.decrypt: the tag is recomputed over the data and iv strings
\* and compared with the given tag as bytes; timingSafeEqual throws on
\* buffers of different length and createDecipheriv on an iv that is not
\* IV_SIZE bytes.
DecryptOf(encryptedData, key) ==
  LET iv == FromHex(encryptedData.iv)
      expectedTag == HmacHex(encryptedData.data \o encryptedData.iv, key)
      given == FromHex(encryptedData.tag)
      expected == FromHex(expectedTag)
  IN IF Len(given) # Len(expected)
     THEN Thrown("Input buffers must have the same byte length")
     ELSE IF given # expected THEN Thrown("Invalid authentication tag")
     ELSE IF Len(iv) # IV_SIZE THEN Thrown("Invalid initialization vector")
     ELSE Decipher(FromHex(encryptedData.data), key, iv)

\* crypto.createPrivateKey(pem).asymmetricKeyType: generateKeyPair and
\* generateEphemeralKeyPair make RSA keys and nothing makes any other.
AsymmetricKeyType(key) == IF key[1] \in {"pub", "priv"} THEN "rsa" ELSE "ec"
DhKeyTypes == {"dh", "ec", "x448", "x25519"}

\* crypto.diffieHellman: both keys must be of one type that can do a key
\* agreement; the secret of two pairs is the same from either side.
DiffieHellman(privateKey, publicKey) ==
  IF \/ AsymmetricKeyType(privateKey) # AsymmetricKeyType(publicKey)
     \/ AsymmetricKeyType(privateKey) \notin DhKeyTypes
  THEN Thrown("Incompatible key types for Diffie-Hellman")
  ELSE Returned(<<{privateKey[2], publicKey[2]}>>)

\* SecureCrypto.deriveSharedSecret: scrypt of the agreed secret.
DeriveSharedSecretOf(privateKey, publicKey) ==
  LET sharedSecret == DiffieHellman(privateKey, publicKey)
  IN IF sharedSecret.ok THEN Returned(<<[scrypt |-> sharedSecret.value]>>)
     ELSE sharedSecret

\* Buffer.from(string): the UTF-8 bytes of a string of UTF-16 code units. A
\* code unit above U+007F takes more than one byte, and a surrogate without
\* its partner is encoded as the replacement character U+FFFD.
Utf8 ==
  [c \in {"a", "b", "e-acute", "lone-D800", "lone-D801"} |->
     CASE c = "a" -> <<"61">>
       [] c = "b" -> <<"62">>
       [] c = "e-acute" -> <<"c3", "a9">>
       [] c \in {"lone-D800", "lone-D801"} -> <<"ef", "bf", "bd">>]
RECURSIVE BufferFrom(_)
BufferFrom(string) ==
  IF string = << >> THEN << >> ELSE Utf8[Head(string)] \o BufferFrom(Tail(string))

\* SecureCrypto.constantTimeCompare: a.length counts code units, and
\* crypto.timingSafeEqual throws on buffers of different byte length.
ConstantTimeCompareOf(a, b) ==
  IF Len(a) # Len(b) THEN [threw |-> FALSE, value |-> FALSE]
  ELSE IF Len(BufferFrom(a)) # Len(BufferFrom(b)) THEN [threw |-> TRUE, value |-> FALSE]
  ELSE [threw |-> FALSE, value |-> BufferFrom(a) = BufferFrom(b)]

\* The strings compared: up to two code units each.
CompareInputs ==
  {<< >>} \cup {<<c>> : c \in DOMAIN Utf8} \cup {<<c, d>> : c \in DOMAIN Utf8, d \in {"a", "b"}}

ConstantTimeCompare(a, b) ==
  /\ ret' = [op |-> "constantTimeCompare", a |-> a, b |-> b,
             result |-> ConstantTimeCompareOf(a, b)]
  /\ UNCHANGED <<users, sessions, issued, now, nextJti, nextKey, reg>>
  /\ UNCHANGED envVars
  /\ UNCHANGED <<wsVars, agent, request, messages>>

\* What can be handed to decrypt in place of a blob b: b with its iv, data
\* or tag replaced, re-spelled, cut or extended, or with the boundary
\* between data and iv moved.
BlobChanges(b) ==
  {[b EXCEPT !.iv = g.iv] : g \in GenuineBlobs}
  \cup {[b EXCEPT !.data = g.data] : g \in GenuineBlobs}
  \cup {[b EXCEPT !.tag = g.tag] : g \in GenuineBlobs}
  \cup {[b EXCEPT !.iv = <<ToUpperCase(b.iv[1])>> \o Tail(b.iv)],
        [b EXCEPT !.iv = Tail(b.iv)],
        [b EXCEPT !.iv = b.iv \o <<NotHex>>],
        [b EXCEPT !.data = <<ToUpperCase(b.data[1])>>],
        [b EXCEPT !.data = b.data \o <<NotHex>>],
        [b EXCEPT !.tag = <<ToUpperCase(b.tag[1])>>],
        [b EXCEPT !.tag = b.tag \o <<NotHex>>],
        [b EXCEPT !.tag = << >>],
        [b EXCEPT !.data = b.data \o <<b.iv[1]>>, !.iv = Tail(b.iv)]}

Encrypt(data, key, k) ==
  /\ ret' = [op |-> "encrypt", data |-> data, key |-> key,
             blob |-> EncryptOf(data, key, RandomIv(k)), result |-> Returned(<< >>)]
  /\ UNCHANGED <<users, sessions, issued, now, nextJti, nextKey, reg>>
  /\ UNCHANGED envVars
  /\ UNCHANGED <<wsVars, agent, request, messages>>

Decrypt(encryptedData, key) ==
  /\ ret' = [op |-> "decrypt", data |-> << >>, key |-> key,
             blob |-> encryptedData, result |-> DecryptOf(encryptedData, key)]
  /\ UNCHANGED <<users, sessions, issued, now, nextJti, nextKey, reg>>
  /\ UNCHANGED envVars
  /\ UNCHANGED <<wsVars, agent, request, messages>>

\* deriveSharedSecret with the private key of one registered identity and
\* the public key of another's key pair.
DeriveSharedSecret(a, b) ==
  /\ a \in 1..Len(users)
  /\ b \in 1..Len(users)
  /\ ret' = [op |-> "deriveSharedSecret", data |-> <<a, b>>, key |-> "",
             blob |-> [iv |-> << >>, data |-> << >>, tag |-> << >>],
             result |-> DeriveSharedSecretOf(users[a].encryptedPrivateKey.sealed,
                                             users[b].publicKey)]
  /\ UNCHANGED <<users, sessions, issued, now, nextJti, nextKey, reg>>
  /\ UNCHANGED envVars
  /\ UNCHANGED <<wsVars, agent, request, messages>>

\* --------------------------------------------- LuminaWebProtocol, actions
CreateMessage(type, from, to, payloadString, k) ==
  LET m == CreateMessageOf(type, from, to, payloadString,
                           GenerateKeyPair(k).privateKey,
                           GenerateNonce(nextNonce + 1))
  IN /\ nextNonce < MaxMessages
     /\ nextNonce' = nextNonce + 1
     /\ sent' = sent \cup {m}
     /\ ret' = [op |-> "createMessage", message |-> m]
     /\ UNCHANGED <<received, usedNonces, presented, nonceStore>>
     /\ UNCHANGED authVars
     /\ UNCHANGED <<wsVars, agent, request, messages>>

\* JSON.stringify of the object a constructor builds, one symbol per key
\* and per value.
HandshakePayload(ephemeralPublicKey, challenge) ==
  <<"{publicKey:", ephemeralPublicKey, ",ephemeralKey:", ephemeralPublicKey,
    ",challenge:", challenge, "}">>
EncryptedPayload(blob) ==
  <<"{iv:">> \o blob.iv \o <<",data:">> \o blob.data \o <<",tag:">> \o blob.tag \o <<"}">>
AckPayload(originalMessageId) ==
  <<"{messageId:", originalMessageId, ",status:", "received", "}">>
PresencePayload(status) ==
  <<"{status:", status, ",lastSeen:">> \o ToISOString(now) \o <<"}">>

\* createPresenceMessage addresses the envelope to the word 'broadcast'.
PresenceRecipient == <<"b", "r", "o", "a", "d", "c", "a", "s", "t">>

\* The other constructors build a payload and return createMessage's result.
CreateHandshakeMessage(from, to, ephemeralPublicKey, challenge, k) ==
  /\ CreateMessage(<<"handshake">>, from, to,
                   HandshakePayload(ephemeralPublicKey, challenge), k)

CreateSecureMessage(from, to, messagePayload, sharedKey, i, k) ==
  /\ CreateMessage(<<"message">>, from, to,
                   EncryptedPayload(EncryptOf(messagePayload, sharedKey, RandomIv(i))), k)

CreateAckMessage(from, to, originalMessageId, k) ==
  /\ CreateMessage(<<"ack">>, from, to, AckPayload(originalMessageId), k)

CreatePresenceMessage(from, status, k) ==
  /\ CreateMessage(<<"presence">>, from, PresenceRecipient,
                   PresencePayload(status), k)

\* What can reach the receiver in place of a sent envelope m: m with one
\* field replaced, or m with the boundary between from and to moved.
FieldChanges(m) ==
  {[m EXCEPT !.version = <<"2", ".", "0">>]}
  \cup {[m EXCEPT !.type = t] : t \in {<<"message">>, <<"ack">>, <<"bogus">>}}
  \cup {[m EXCEPT !.from = EmailB], [m EXCEPT !.from = EmailBad],
        [m EXCEPT !.to = EmailA]}
  \cup {[m EXCEPT !.timestamp = t] : t \in {<<"T0">>, <<"T2">>, <<"not-a-date">>}}
  \cup {[m EXCEPT !.nonce = n] : n \in {<<"N3">>, <<"N-short">>}}
  \cup {[m EXCEPT !.payload = q] : q \in {<<"{p2}">>, <<"{huge}">>}}
  \cup {[m EXCEPT !.signature = ForgedSignature]}
Resplits(m) ==
  LET ft == m.from \o m.to IN
  {[m EXCEPT !.from = SubSeq(ft, 1, i), !.to = SubSeq(ft, i + 1, Len(ft))] :
     i \in 1..(Len(ft) - 1)}
Tamperings(m) == (FieldChanges(m) \cup Resplits(m)) \ {m}

\* An envelope arrives, as sent or tampered with on the way.
Deliver(m, c) ==
  /\ received' = <<[env |-> c, origin |-> m]>>
  /\ ret' = [op |-> "deliver"]
  /\ UNCHANGED <<sent, nextNonce, usedNonces, presented, nonceStore>>
  /\ UNCHANGED authVars
  /\ UNCHANGED <<wsVars, agent, request, messages>>

\* LuminaWebProtocol.validateMessage on the received envelope. `repeat` notes
\* that the call before this one validated the same envelope under the same
\* key and found it valid.
ValidateMessage(publicKey) ==
  /\ received # << >>
  /\ LET m == received[1].env
         errors == ValidateMessageErrors(m, publicKey)
     IN ret' = [op |-> "validateMessage", message |-> m,
                origin |-> received[1].origin, publicKey |-> publicKey,
                isValid |-> errors = << >>, errors |-> errors,
                repeat |-> /\ ret.op = "validateMessage"
                           /\ ret.message = m
                           /\ ret.publicKey = publicKey
                           /\ ret.isValid]
  /\ UNCHANGED envVars
  /\ UNCHANGED authVars
  /\ UNCHANGED <<wsVars, agent, request, messages>>

\* LuminaWebProtocol.isReplayAttack(nonce, usedNonces)
IsReplayAttack(nonce) ==
  /\ ret' = [op |-> "isReplayAttack", nonce |-> nonce,
             result |-> Contains(usedNonces, nonce)]
  /\ usedNonces' = IF Contains(usedNonces, nonce) THEN usedNonces
                   ELSE SetAdd(usedNonces, nonce)
  /\ presented' = presented \cup {nonce}
  /\ UNCHANGED <<sent, received, nextNonce, nonceStore>>
  /\ UNCHANGED authVars
  /\ UNCHANGED <<wsVars, agent, request, messages>>

\* The clock of the freshness window, one window at a time.
EnvTick ==
  /\ now + 1 < Len(IsoStrings)
  /\ now' = now + 1
  /\ ret' = [op |-> "tick"]
  /\ UNCHANGED <<users, sessions, issued, nextJti, nextKey, reg>>
  /\ UNCHANGED envVars
  /\ UNCHANGED <<wsVars, agent, request, messages>>

PublicKeys == {GenerateKeyPair(k).publicKey : k \in 1..2}
\* The nonces of the envelopes that can be sent, and one that none carries.
NonceInputs == {GenerateNonce(k) : k \in 1..(MaxMessages + 1)}

EnvNext ==
  \/ CreateMessage(<<"message">>, EmailA, EmailB, <<"{p1}">>, 1)
  \/ \E m \in sent : \E c \in {m} \cup Tamperings(m) : Deliver(m, c)
  \/ \E pk \in PublicKeys : ValidateMessage(pk)
  \/ \E n \in NonceInputs : IsReplayAttack(n)
  \/ EnvTick

EnvSpec == Init /\ [][EnvNext]_vars

\* Every constructor, each envelope delivered as it was sent.
CtorNext ==
  \/ CreateMessage(<<"message">>, EmailA, EmailB, <<"{p1}">>, 1)
  \/ CreateHandshakeMessage(EmailA, EmailB, "pem3", "ch1", 1)
  \/ \E i \in 1..Len(IvBytes) :
       CreateSecureMessage(EmailA, EmailB, <<"{p1}">>, "k1", i, 1)
  \/ CreateAckMessage(EmailA, EmailB, "id1", 1)
  \/ \E status \in {"online", "offline", "away"} :
       CreatePresenceMessage(EmailA, status, 1)
  \/ \E m \in sent : Deliver(m, m)
  \/ \E pk \in PublicKeys : ValidateMessage(pk)
  \/ EnvTick

CtorSpec == Init /\ [][CtorNext]_vars

\* ------------------------------------------- SecureStorage, the nonce store
\* The set is pruned to the newer half of the limit.
NonceSetKeep == NonceSetLimit \div 2

\* An addUsedNonce that never prunes.
AddUsedNonceUnbounded(set, nonce) == SetAdd(set, nonce)

\* Set.add keeps the place of a nonce that is already there; above the limit
\* the set is rebuilt from the last NonceSetKeep entries in insertion order.
AddUsedNonceOf(set, nonce) ==
  LET added == SetAdd(set, nonce)
  IN IF Len(added) > NonceSetLimit
     THEN SubSeq(added, Len(added) - NonceSetKeep + 1, Len(added))
     ELSE added

IsNonceUsedOf(set, nonce) == Contains(set, nonce)

\* SecureStorage.addUsedNonce; recordedAt notes the time of the call.
AddUsedNonce(nonce) ==
  /\ nonceStore' =
       [usedNonces |-> AddUsedNonceOf(nonceStore.usedNonces, nonce),
        recordedAt |-> [n \in DOMAIN nonceStore.recordedAt \cup {nonce} |->
                          IF n = nonce THEN now ELSE nonceStore.recordedAt[n]]]
  /\ ret' = [op |-> "addUsedNonce", nonce |-> nonce]
  /\ UNCHANGED <<sent, received, nextNonce, usedNonces, presented>>
  /\ UNCHANGED authVars
  /\ UNCHANGED <<wsVars, agent, request, messages>>

\* SecureStorage.isNonceUsed
IsNonceUsed(nonce) ==
  /\ ret' = [op |-> "isNonceUsed", nonce |-> nonce,
             result |-> IsNonceUsedOf(nonceStore.usedNonces, nonce)]
  /\ UNCHANGED envVars
  /\ UNCHANGED authVars
  /\ UNCHANGED <<wsVars, agent, request, messages>>

\* One nonce more than the set holds before it is pruned.
StoreNonces == 1..(NonceSetLimit + 1)

NonceNext ==
  \/ \E n \in StoreNonces : AddUsedNonce(n)
  \/ \E n \in StoreNonces : IsNonceUsed(n)
  \/ EnvTick

NonceSpec == Init /\ [][NonceNext]_vars

\* The nonce store at one instant: insertions and queries only.
NonceSetNext ==
  \/ \E n \in StoreNonces : AddUsedNonce(n)
  \/ \E n \in StoreNonces : IsNonceUsed(n)

NonceSetSpec == Init /\ [][NonceSetNext]_vars

\* The session lifecycle: one caller registers, and login, verifyToken,
\* refreshToken, logout, the sweep and the clock interleave with its steps.
Next ==
  \/ \E e \in {EmailA, EmailBad}, pw \in RegisterPasswords : RegisterCall(1, e, pw)
  \/ RegisterAfterLookup(1)
  \/ RegisterAfterHash(1)
  \/ RegisterAfterStore(1)
  \/ RegisterAfterTokens(1)
  \/ \E e \in {EmailA, EmailBad}, pw \in LoginPasswords : Login(e, pw)
  \/ \E t \in TokenInputs : VerifyToken(t)
  \/ \E t \in TokenInputs : RefreshToken(t)
  \/ \E s \in SessionIds : Logout(s)
  \/ Cleanup
  \/ \E t \in Instants : Tick(t)

Spec == Init /\ [][Next]_vars

\* Register calls running concurrently: every interleaving of their steps.
RegNext ==
  \/ \E p \in Procs, e \in EmailInputs, pw \in RegisterPasswords : RegisterCall(p, e, pw)
  \/ \E p \in Procs : RegisterAfterLookup(p)
  \/ \E p \in Procs : RegisterAfterHash(p)
  \/ \E p \in Procs : RegisterAfterStore(p)
  \/ \E p \in Procs : RegisterAfterTokens(p)

RegSpec == Init /\ [][RegNext]_vars


\* ------------------------------------------------------- WebSocketManager
\* The `clients` Map, in insertion order: set on a key already present keeps
\* the key's place.
MapHas(m, k) == \E i \in 1..Len(m) : m[i].userId = k
MapSet(m, k, v) ==
  IF MapHas(m, k)
  THEN [i \in 1..Len(m) |-> IF m[i].userId = k THEN [userId |-> k, ws |-> v] ELSE m[i]]
  ELSE Append(m, [userId |-> k, ws |-> v])
MapDelete(m, k) == SelectSeq(m, LAMBDA e : e.userId # k)
Registered(c) == \E i \in 1..Len(clients) : clients[i].ws = c

\* A socket that asks for an upgrade; the token is the `token` query
\* parameter, NoToken when the parameter is absent or empty.
NoToken == [kind |-> "none"]
NewSocket(tok) ==
  [token |-> tok, readyState |-> "CONNECTING", pc |-> "handshake",
   verification |-> FALSE, userId |-> 0, email |-> << >>, isAlive |-> FALSE,
   listening |-> FALSE, terminated |-> FALSE, closeCode |-> 0]

\* No handleConnection call is waiting on its `await verifyToken`: the
\* continuation is a microtask and runs before any further socket event.
NoPending == \A c \in 1..Len(conns) : conns[c].pc # "awaitVerify"

Undefined == 0

\* A sendMessage that sends nothing.
SendMessageDropped(cs, c, message) == << >>
\* sendMessage: the frame goes out only on an OPEN socket.
SendMessage(cs, c, message) ==
  IF cs[c].readyState = "OPEN" THEN <<[to |-> c, frame |-> message]>> ELSE << >>

SendError(cs, c, error) ==
  SendMessage(cs, c, [type |-> "error", data |-> [error |-> error],
                      timestamp |-> ToISOString(now)])

\* broadcast: every registry entry in Map order, except excludeUserId.
RECURSIVE Broadcast(_, _, _, _)
Broadcast(cl, cs, message, excludeUserId) ==
  IF cl = << >> THEN << >>
  ELSE (IF Head(cl).userId # excludeUserId /\ cs[Head(cl).ws].readyState = "OPEN"
        THEN SendMessage(cs, Head(cl).ws, message) ELSE << >>)
       \o Broadcast(Tail(cl), cs, message, excludeUserId)

PresenceMessage(email, status) ==
  [type |-> "presence", data |-> [email |-> email, status |-> status],
   timestamp |-> ToISOString(now)]

\* broadcastPresence calls broadcast with no excludeUserId.
BroadcastPresence(cl, cs, email, status) ==
  Broadcast(cl, cs, PresenceMessage(email, status), Undefined)

\* verifyClient, and for an admitted socket the completed handshake and
\* handleConnection up to its `await AuthService.verifyToken(token)`.
\* verifyClient calls the async verifyToken and drops the promise: the call
\* cannot throw, so every request that carries a token is admitted.
VerifyClient(tok) ==
  LET c == Len(conns) + 1
      result == tok # NoToken
  IN /\ NoPending
     /\ Len(conns) < MaxConns
     /\ conns' = Append(conns,
          IF result
          THEN [NewSocket(tok) EXCEPT !.readyState = "OPEN", !.pc = "awaitVerify",
                                      !.verification = VerifyTokenValid(tok)]
          ELSE [NewSocket(tok) EXCEPT !.readyState = "CLOSED", !.pc = "refused"])
     /\ frames' = << >>
     /\ ret' = [op |-> "verifyClient", conn |-> c, token |-> tok, result |-> result]
     /\ UNCHANGED clients
     /\ UNCHANGED authVars
     /\ UNCHANGED <<envVars, agent, request, messages>>

\* handleConnection after the await: close(1008) on a failed verification;
\* otherwise register the socket, mark the user online, broadcast the online
\* presence, attach the handlers and send the auth frame.
HandleConnection(c) ==
  LET payload == conns[c].token
      cs == [conns EXCEPT ![c].userId = payload.userId, ![c].email = payload.email,
                          ![c].isAlive = TRUE, ![c].listening = TRUE,
                          ![c].pc = "registered"]
      cl == MapSet(clients, payload.userId, c)
  IN /\ conns[c].pc = "awaitVerify"
     /\ IF ~conns[c].verification
        THEN /\ conns' = [conns EXCEPT ![c].readyState = "CLOSING", ![c].pc = "rejected",
                                       ![c].closeCode = 1008]
             /\ frames' = << >>
             /\ UNCHANGED <<clients, users>>
        ELSE /\ conns' = cs
             /\ clients' = cl
             /\ users' = UpdateUserPresence(users, payload.userId, TRUE)
             /\ frames' = BroadcastPresence(cl, cs, payload.email, "online")
                          \o SendMessage(cs, c,
                               [type |-> "auth",
                                data |-> [status |-> "authenticated",
                                          userId |-> payload.userId],
                                timestamp |-> ToISOString(now)])
     /\ ret' = [op |-> "handleConnection", conn |-> c]
     /\ UNCHANGED <<sessions, issued, now, nextJti, nextKey, reg>>
     /\ UNCHANGED <<envVars, agent, request, messages>>

\* An inbound text frame: JSON that parses to {type, data, timestamp}, or not.
InboundFrame(type, status, timestamp) ==
  [parses |-> TRUE, type |-> type, hasData |-> TRUE, status |-> status,
   timestamp |-> timestamp]
InboundFrames ==
  {InboundFrame("ping", "none", <<"T0">>), InboundFrame("ping", "none", <<"not-a-date">>),
   InboundFrame("message", "none", <<"T0">>),
   [InboundFrame("ping", "none", <<"T0">>) EXCEPT !.parses = FALSE]}
  \cup {InboundFrame("presence", st, <<"T0">>) : st \in {"online", "away", "busy", "bogus"}}
  \cup {InboundFrame("presence", "away", <<"not-a-date">>)}

\* WebSocketManager.validateMessage (frame shape and freshness).
ValidateFrame(message) ==
  /\ message.hasData
  /\ IsValidTimestamp(message.timestamp)

\* handleMessage with handlePresenceUpdate.
HandleMessage(c, message) ==
  /\ NoPending
  /\ conns[c].listening
  /\ conns[c].readyState = "OPEN"
  /\ IF ~message.parses
     THEN /\ frames' = SendError(conns, c, "Failed to process message")
          /\ UNCHANGED users
     ELSE IF ~ValidateFrame(message)
     THEN /\ frames' = SendError(conns, c, "Invalid message format")
          /\ UNCHANGED users
     ELSE IF message.type = "presence"
     THEN IF message.status \in {"online", "away", "busy"}
          THEN /\ users' = UpdateUserPresence(users, conns[c].userId,
                                              message.status = "online")
               /\ frames' = BroadcastPresence(clients, conns, conns[c].email,
                                              message.status)
          ELSE /\ frames' = << >>
               /\ UNCHANGED users
     ELSE IF message.type = "ping"
     THEN /\ frames' = SendMessage(conns, c,
                         [type |-> "pong", data |-> [timestamp |-> ToISOString(now)],
                          timestamp |-> ToISOString(now)])
          /\ UNCHANGED users
     ELSE /\ frames' = SendError(conns, c, "Unknown message type")
          /\ UNCHANGED users
  /\ ret' = [op |-> "handleMessage", conn |-> c, message |-> message]
  /\ UNCHANGED <<conns, clients>>
  /\ UNCHANGED <<sessions, issued, now, nextJti, nextKey, reg>>
  /\ UNCHANGED <<envVars, agent, request, messages>>

\* The 'pong' handler.
Pong(c) ==
  /\ NoPending
  /\ conns[c].listening
  /\ conns[c].readyState = "OPEN"
  /\ ~conns[c].isAlive
  /\ conns' = [conns EXCEPT ![c].isAlive = TRUE]
  /\ frames' = << >>
  /\ ret' = [op |-> "pong", conn |-> c]
  /\ UNCHANGED clients
  /\ UNCHANGED authVars
  /\ UNCHANGED <<envVars, agent, request, messages>>

\* The peer's close frame arrives: the socket is CLOSING until the transport
\* is down.
PeerClose(c) ==
  /\ NoPending
  /\ conns[c].readyState = "OPEN"
  /\ conns' = [conns EXCEPT ![c].readyState = "CLOSING"]
  /\ frames' = << >>
  /\ ret' = [op |-> "peerClose", conn |-> c]
  /\ UNCHANGED clients
  /\ UNCHANGED authVars
  /\ UNCHANGED <<envVars, agent, request, messages>>

\* The transport of a CLOSING socket is down: the socket is CLOSED and its
\* 'close' event runs handleDisconnection if the handler was attached.
SocketClosed(c) ==
  LET cs == [conns EXCEPT ![c].readyState = "CLOSED"]
      cl == MapDelete(clients, conns[c].userId)
  IN /\ NoPending
     /\ conns[c].readyState = "CLOSING"
     /\ conns' = cs
     /\ IF conns[c].listening
        THEN /\ clients' = cl
             /\ users' = UpdateUserPresence(users, conns[c].userId, FALSE)
             /\ frames' = BroadcastPresence(cl, cs, conns[c].email, "offline")
        ELSE /\ frames' = << >>
             /\ UNCHANGED <<clients, users>>
     /\ ret' = [op |-> "close", conn |-> c, handled |-> conns[c].listening]
     /\ UNCHANGED <<sessions, issued, now, nextJti, nextKey, reg>>
     /\ UNCHANGED <<envVars, agent, request, messages>>

\* One heartbeat sweep over the registry.
Heartbeat ==
  LET dead == {c \in 1..Len(conns) : Registered(c) /\ ~conns[c].isAlive}
  IN /\ NoPending
     /\ conns' = [c \in 1..Len(conns) |->
                    IF c \in dead
                    THEN [conns[c] EXCEPT !.terminated = TRUE,
                            !.readyState = IF @ = "CLOSED" THEN @ ELSE "CLOSING"]
                    ELSE IF Registered(c) THEN [conns[c] EXCEPT !.isAlive = FALSE]
                    ELSE conns[c]]
     /\ clients' = SelectSeq(clients, LAMBDA e : e.ws \notin dead)
     /\ frames' = << >>
     /\ ret' = [op |-> "heartbeat", terminated |-> dead]
     /\ UNCHANGED authVars
     /\ UNCHANGED <<envVars, agent, request, messages>>

\* A notification pushed to every registered connection.
NotifyNewMessageBroadcast(recipientEmail, messageData) ==
  /\ NoPending
  /\ frames' = Broadcast(clients, conns,
                  [type |-> "message", data |-> messageData,
                   timestamp |-> ToISOString(now)], Undefined)
  /\ ret' = [op |-> "notifyNewMessage", recipientEmail |-> recipientEmail]
  /\ UNCHANGED <<conns, clients>>
  /\ UNCHANGED authVars
  /\ UNCHANGED <<envVars, agent, request, messages>>

\* notifyNewMessage: the first registry entry whose email is the recipient's.
NotifyNewMessage(recipientEmail, messageData) ==
  LET found == {i \in 1..Len(clients) : conns[clients[i].ws].email = recipientEmail}
      first == CHOOSE i \in found : \A j \in found : i <= j
  IN /\ NoPending
     /\ frames' = IF found = {} THEN << >>
                  ELSE SendMessage(conns, clients[first].ws,
                         [type |-> "message", data |-> messageData,
                          timestamp |-> ToISOString(now)])
     /\ ret' = [op |-> "notifyNewMessage", recipientEmail |-> recipientEmail]
     /\ UNCHANGED <<conns, clients>>
     /\ UNCHANGED authVars
     /\ UNCHANGED <<envVars, agent, request, messages>>

\* The delivery coordinator starts with two identities registered.
RegisteredUser(id, email, password) ==
  StoredUser(id, email, HashPassword(password), GenerateKeyPair(id), password)
WsStart ==
  /\ now = 0
  /\ users = <<RegisteredUser(1, EmailA, PwGood), RegisteredUser(2, EmailB, PwGood)>>
  /\ sessions = StoreSession(StoreSession(NoSessions, 1,
                    NewSession(1, EmailA, GenerateKeyPair(1).publicKey, 1)), 2,
                    NewSession(2, EmailB, GenerateKeyPair(2).publicKey, 2))
  /\ issued = {GenerateTokens(1, EmailA, 1).accessToken,
               GenerateTokens(2, EmailB, 2).accessToken}
  /\ nextJti = 2
  /\ nextKey = 2
  /\ reg = [p \in Procs |-> IdleReg]
  /\ ret = [op |-> "init"]
  /\ EnvInit
  /\ WsInit
  /\ ClientInit
  /\ RequestInit
  /\ MessagesInit

WsTokenInputs == {NoToken} \cup TokenInputs

WsNext ==
  \/ \E t \in WsTokenInputs : VerifyClient(t)
  \/ \E c \in 1..Len(conns) : HandleConnection(c)
  \/ \E c \in 1..Len(conns), m \in InboundFrames : HandleMessage(c, m)
  \/ \E c \in 1..Len(conns) : Pong(c)
  \/ \E c \in 1..Len(conns) : PeerClose(c)
  \/ \E c \in 1..Len(conns) : SocketClosed(c)
  \/ Heartbeat
  \/ \E e \in {EmailA, EmailB} : NotifyNewMessage(e, "m1")

WsSpec == WsStart /\ [][WsNext]_vars

\* Admission and delivery beside the operations that end or replace
\* sessions: logout of a stored session, refreshToken with the token of a
\* connection, the storage sweep and the clock. Connections present access
\* tokens that were issued.
SessionWsNext ==
  \/ \E t \in {u \in issued : u.kind = "access"} : VerifyClient(t)
  \/ \E c \in 1..Len(conns) : HandleConnection(c)
  \/ \E e \in {EmailA, EmailB} : NotifyNewMessage(e, "m1")
  \/ \E sid \in DOMAIN sessions : Logout(sid)
  \/ \E c \in 1..Len(conns) : RefreshToken(conns[c].token)
  \/ Cleanup
  \/ \E t \in Instants : Tick(t)

SessionWsSpec == WsStart /\ [][SessionWsNext]_vars

\* The connection lifecycle alone: the inbound frames and notifications that
\* leave the registry, the sockets and the presence flags as they are (they
\* only answer the sender) are left out; presence updates stay.
PresenceFrames == {InboundFrame("presence", st, <<"T0">>) : st \in {"online", "away"}}
WsLifeNext ==
  \/ \E t \in WsTokenInputs : VerifyClient(t)
  \/ \E c \in 1..Len(conns) : HandleConnection(c)
  \/ \E c \in 1..Len(conns), m \in PresenceFrames : HandleMessage(c, m)
  \/ \E c \in 1..Len(conns) : Pong(c)
  \/ \E c \in 1..Len(conns) : PeerClose(c)
  \/ \E c \in 1..Len(conns) : SocketClosed(c)
  \/ Heartbeat

\* A pending handleConnection continuation does run, and the transport of a
\* CLOSING socket does go down (the library destroys it on terminate, and
\* after the close timeout otherwise).
WsLiveSpec ==
  /\ WsStart /\ [][WsLifeNext]_vars
  /\ \A c \in 1..MaxConns : WF_vars(c \in 1..Len(conns) /\ HandleConnection(c))
  /\ \A c \in 1..MaxConns : WF_vars(c \in 1..Len(conns) /\ SocketClosed(c))


\* --------------------------------------------------- SecureCrypto, steps
\* Two registered identities; blobs are encrypted, handed to decrypt as they
\* are or changed, under either key, shared secrets are derived and strings
\* are compared.
CryptoNext ==
  \/ \E p \in Plaintexts : \E k \in SharedKeys : \E i \in 1..Len(IvBytes) :
       Encrypt(p, k, i)
  \/ \E b \in GenuineBlobs : \E c \in {b} \cup BlobChanges(b) : \E k \in SharedKeys :
       Decrypt(c, k)
  \/ \E a \in 1..MaxUsers : \E b \in 1..MaxUsers : DeriveSharedSecret(a, b)
  \/ \E a \in CompareInputs : \E b \in CompareInputs : ConstantTimeCompare(a, b)

CryptoSpec == WsStart /\ [][CryptoNext]_vars

\* ----------------------------------------------------------- useWebSocket
\* agent.sockets are the WebSocket objects the hook created, each with the
\* isAuthenticated its handlers captured; agent.wsRef is an index into them
\* (0 for null). agent.intervals counts the ping intervals that are running,
\* agent.pingInterval tells whether pingIntervalRef holds one of them.
\* agent.explicitlyDisconnected records that disconnect() was the last call
\* made by the user, with no connect() and no authorization change since.
Pow2(n) == IF n = 0 THEN 1 ELSE IF n = 1 THEN 2 ELSE IF n = 2 THEN 4
           ELSE IF n = 3 THEN 8 ELSE IF n = 4 THEN 16 ELSE 32
Min(a, b) == IF a < b THEN a ELSE b
\* A delay that grows by one base delay per attempt.
ReconnectDelayLinear(attempts) ==
  Min(BaseReconnectDelay * (attempts + 1), MaxReconnectDelay)
ReconnectDelay(attempts) == Min(BaseReconnectDelay * Pow2(attempts), MaxReconnectDelay)

RefState(a) == IF a.wsRef = 0 THEN "none" ELSE a.sockets[a.wsRef].readyState

\* cleanup()
CleanupOf(a) ==
  [a EXCEPT !.reconnectTimeout = NoTimer,
            !.intervals = IF a.pingInterval THEN @ - 1 ELSE @,
            !.pingInterval = FALSE]

\* connect() of a render whose isAuthenticated was `auth`.
ConnectOf(a, auth) ==
  IF ~auth \/ RefState(a) = "CONNECTING" THEN a
  ELSE IF ~a.tokensStored THEN [a EXCEPT !.connectionState = "error"]
  ELSE [CleanupOf(a) EXCEPT
          !.connectionState = "connecting",
          !.sockets = Append(@, [readyState |-> "CONNECTING", auth |-> auth]),
          !.wsRef = Len(a.sockets) + 1]

\* disconnect()
DisconnectOf(a) ==
  LET b == CleanupOf(a) IN
  [b EXCEPT !.sockets = IF b.wsRef = 0 THEN @
                        ELSE [@ EXCEPT ![b.wsRef].readyState =
                                IF @ \in {"CONNECTING", "OPEN"} THEN "CLOSING" ELSE @],
            !.wsRef = 0,
            !.isConnected = FALSE,
            !.connectionState = "disconnected",
            !.reconnectAttempts = 0]

\* The onclose handler of a socket whose handlers captured `auth`.
OnClose(a, auth) ==
  LET b == CleanupOf([a EXCEPT !.isConnected = FALSE,
                               !.connectionState = "disconnected"])
  IN IF auth /\ b.reconnectAttempts < maxReconnectAttempts
     THEN [b EXCEPT !.reconnectTimeout =
                       [pending |-> TRUE, auth |-> auth,
                        delay |-> ReconnectDelay(b.reconnectAttempts)],
                    !.reconnectAttempts = @ + 1]
     ELSE b

Fits(a) == Len(a.sockets) <= MaxSockets

ClientStep(a, op) ==
  /\ agent' = a
  /\ ret' = [op |-> op]
  /\ UNCHANGED <<authVars, envVars, wsVars, request, messages>>

\* The user calls the returned connect().
UserConnect ==
  ClientStep([ConnectOf(agent, agent.isAuthenticated)
                EXCEPT !.explicitlyDisconnected = FALSE], "connect")

\* The user calls the returned disconnect().
UserDisconnect ==
  ClientStep([DisconnectOf(agent) EXCEPT !.explicitlyDisconnected = TRUE], "disconnect")

\* isAuthenticated changes (login stores the tokens, logout removes them):
\* the effect's cleanup runs disconnect(), then the effect runs connect() of
\* the new render, or disconnect().
AuthChange(v) ==
  LET a == DisconnectOf([agent EXCEPT !.isAuthenticated = v, !.tokensStored = v,
                                      !.explicitlyDisconnected = FALSE])
  IN /\ v # agent.isAuthenticated
     /\ ClientStep(IF v THEN ConnectOf(a, v) ELSE DisconnectOf(a), "authChange")

\* localStorage loses the tokens while the page stays authenticated.
StorageCleared ==
  /\ agent.tokensStored
  /\ ClientStep([agent EXCEPT !.tokensStored = FALSE], "storageCleared")

\* The 'open' event of socket s.
SocketOpen(s) ==
  /\ agent.sockets[s].readyState = "CONNECTING"
  /\ ClientStep([agent EXCEPT !.sockets[s].readyState = "OPEN",
                              !.isConnected = TRUE,
                              !.connectionState = "connected",
                              !.reconnectAttempts = 0,
                              !.intervals = @ + 1,
                              !.pingInterval = TRUE], "onopen")

\* The 'close' event of socket s (closed by the peer, by the network, or
\* after close() was called on it).
SocketClose(s) ==
  /\ agent.sockets[s].readyState # "CLOSED"
  /\ ClientStep(OnClose([agent EXCEPT !.sockets[s].readyState = "CLOSED"],
                        agent.sockets[s].auth), "onclose")

\* The 'error' event of socket s.
SocketError(s) ==
  /\ agent.sockets[s].readyState \in {"CONNECTING", "OPEN"}
  /\ ClientStep([agent EXCEPT !.connectionState = "error"], "onerror")

\* A text frame arrives on socket s.
SocketMessage(s, data) ==
  /\ agent.sockets[s].readyState = "OPEN"
  /\ ClientStep(IF data = "garbage" THEN agent
                ELSE [agent EXCEPT !.lastMessage = data], "onmessage")

\* The reconnect timeout fires: connect() of the render that made the socket.
ReconnectFires ==
  /\ agent.reconnectTimeout.pending
  /\ ClientStep([ConnectOf([agent EXCEPT !.reconnectTimeout = NoTimer],
                           agent.reconnectTimeout.auth)
                   EXCEPT !.explicitlyDisconnected = FALSE], "reconnect")

\* visibilitychange (to visible or to hidden) and online.
HandleVisibilityChange(visible) ==
  ClientStep(IF visible /\ agent.isAuthenticated /\ ~agent.isConnected
             THEN [ConnectOf(agent, agent.isAuthenticated)
                     EXCEPT !.explicitlyDisconnected = FALSE]
             ELSE agent, "visibilitychange")
HandleOnline ==
  ClientStep(IF agent.isAuthenticated /\ ~agent.isConnected
             THEN [ConnectOf(agent, agent.isAuthenticated)
                     EXCEPT !.explicitlyDisconnected = FALSE]
             ELSE agent, "online")

\* sendMessage(message), and one tick of a running ping interval, which calls
\* it: the frame goes out only if wsRef holds an OPEN socket.
ClientSend(type) ==
  /\ agent' = agent
  /\ ret' = [op |-> "sendMessage", type |-> type,
             sentOn |-> IF RefState(agent) = "OPEN" THEN agent.wsRef ELSE 0]
  /\ UNCHANGED <<authVars, envVars, wsVars, request, messages>>
PingTick ==
  /\ agent.intervals > 0
  /\ agent' = agent
  /\ ret' = [op |-> "pingTick",
             sentOn |-> IF RefState(agent) = "OPEN" THEN agent.wsRef ELSE 0]
  /\ UNCHANGED <<authVars, envVars, wsVars, request, messages>>

ClientNext ==
  \/ UserConnect /\ Fits(agent')
  \/ UserDisconnect
  \/ \E v \in BOOLEAN : AuthChange(v) /\ Fits(agent')
  \/ StorageCleared
  \/ \E s \in 1..Len(agent.sockets) : SocketOpen(s)
  \/ \E s \in 1..Len(agent.sockets) : SocketClose(s)
  \/ \E s \in 1..Len(agent.sockets) : SocketError(s)
  \/ \E s \in 1..Len(agent.sockets), d \in {"pong", "garbage"} : SocketMessage(s, d)
  \/ ReconnectFires /\ Fits(agent')
  \/ \E v \in BOOLEAN : HandleVisibilityChange(v) /\ Fits(agent')
  \/ HandleOnline /\ Fits(agent')
  \/ ClientSend("message")
  \/ PingTick

ClientSpec == Init /\ [][ClientNext]_vars

\* The reconnect cycle alone: connection attempts that open or fail, the
\* timer, and the changes of authorization, with room for the attempts that
\* take the retry counter to its limit and one more.
RetryFits(a) == Len(a.sockets) <= MaxRetrySockets
RetryNext ==
  \/ UserConnect /\ RetryFits(agent')
  \/ \E v \in BOOLEAN : AuthChange(v) /\ RetryFits(agent')
  \/ \E s \in 1..Len(agent.sockets) : SocketOpen(s)
  \/ \E s \in 1..Len(agent.sockets) : SocketClose(s)
  \/ ReconnectFires /\ RetryFits(agent')
  \/ HandleOnline /\ RetryFits(agent')

RetrySpec == Init /\ [][RetryNext]_vars

\* ================================================================= claims

\* C2: concurrent register calls for one identifier yield exactly one success
\* and leave exactly one credential for it: no two stored credentials share
\* an identifier, and a register call that returns success owns the only
\* credential of its identifier.
C2_OneCredentialPerIdentifier ==
  /\ \A i, j \in 1..Len(users) : users[i].email = users[j].email => i = j
  /\ (ret.op = "register" /\ ret.success) =>
        \A i \in 1..Len(users) : users[i].email = ret.user.email => i = ret.user.id

\* C1: envelope validation consults the replay guard: when an envelope that
\* validateMessage has just found valid is validated again under the same
\* key, the second validation is invalid.
C1_SecondValidationIsReplay ==
  (ret.op = "validateMessage" /\ ret.repeat) => ~ret.isValid

\* C3: a copy of a created envelope that differs from it in version, type,
\* from, to, timestamp, nonce or payload is reported invalid by
\* validateMessage under the signer's public key, with the error
\* 'Invalid message signature'.
SignedFields(m) == <<m.version, m.type, m.from, m.to, m.timestamp, m.nonce, m.payload>>
C3_TamperingFailsSignature ==
  (/\ ret.op = "validateMessage"
   /\ SignedFields(ret.message) # SignedFields(ret.origin)
   /\ ret.publicKey = <<"pub", ret.origin.signature.by>>)
  => (~ret.isValid /\ Contains(ret.errors, "Invalid message signature"))

\* C4: verifyToken answers valid only for a token whose signature and expiry
\* pass and whose session is stored and not past its expiresAt; the access
\* token returned by register or login is accepted at once; after logout of
\* a session every token of that session is rejected.
C4_VerifyNeedsLiveSession ==
  /\ (ret.op = "verifyToken" /\ ret.valid) =>
        /\ ret.token.sig = "ok"
        /\ now < ret.token.exp
        /\ ret.token.jti \in DOMAIN sessions
        /\ sessions[ret.token.jti].expiresAt >= now
  /\ (ret.op = "register" /\ ret.success) =>
        VerifyTokenValid(ret.tokens.accessToken)
  /\ (ret.op = "login" /\ ret.result.success) =>
        VerifyTokenValid(ret.result.tokens.accessToken)
  /\ ret.op = "logout" =>
        \A t \in TokenInputs : t.jti = ret.sessionId => ~VerifyTokenValid(t)

\* C4 witness: verifyToken has just rejected a token that is neither forged
\* nor expired, because its session was deleted.
C4_RejectedAfterLogout ==
  /\ ret.op = "verifyToken"
  /\ ~ret.valid
  /\ JwtVerify(ret.token)
  /\ ret.token.jti \notin DOMAIN sessions

\* C5: a refresh token is single-use: a successful refreshToken(r) is never
\* followed by another successful refreshToken(r).
C5_RefreshTokenSingleUse ==
  [][(ret.op = "refreshToken" /\ ret.success) =>
       ~(ret'.op = "refreshToken" /\ ret'.success /\ ret'.token = ret.token)]_vars

\* C6: a session that is deleted or past its expiresAt stays dead: whatever
\* call comes next, verifyToken and refreshToken still refuse every token
\* that references it.
C6_DeadSessionStaysDead ==
  [][\A t \in TokenInputs :
       ~SessionLive(t.jti) => (~VerifyTokenValid(t) /\ ~RefreshAccepts(t))']_vars

\* C6 witness: a genuine token of a dead session is refused after later
\* sessions have been created.
C6_RefusedAfterLaterCalls ==
  /\ ret.op \in {"verifyToken", "refreshToken"}
  /\ ret.token.sig = "ok"
  /\ ~SessionLive(ret.token.jti)
  /\ nextJti > ret.token.jti
  /\ DOMAIN sessions # {}
  /\ (ret.op = "verifyToken" => ~ret.valid)
  /\ (ret.op = "refreshToken" => ~ret.success)

\* C7: a connection whose token is missing or fails verifyToken is refused at
\* the handshake: verifyClient returns false for it, and no socket is
\* admitted and then closed for an authentication failure.
C7_RefusedAtHandshake ==
  /\ (ret.op = "verifyClient" /\ ret.result) =>
        (ret.token # NoToken /\ VerifyTokenValid(ret.token))
  /\ \A c \in 1..Len(conns) : conns[c].closeCode # 1008

\* C10: when a registered connection is disconnected, by its close event or
\* by heartbeat termination, it leaves the registry, its identity's isOnline
\* becomes false, and an offline presence frame goes to every remaining
\* registered open connection: the sweep removes what it terminates, the
\* close event of a registered or terminated socket does all three, and
\* every socket the sweep terminated does get its close event (in the end
\* none is left terminated and not closed).
OfflineSent(c, email) ==
  \E i \in 1..Len(frames) :
    /\ frames[i].to = c
    /\ frames[i].frame.type = "presence"
    /\ frames[i].frame.data = [email |-> email, status |-> "offline"]
DisconnectionHandled(c) ==
  /\ conns[c].userId \in 1..Len(users)
  /\ ~Registered(c)
  /\ ~users[conns[c].userId].isOnline
  /\ \A i \in 1..Len(clients) :
       conns[clients[i].ws].readyState = "OPEN" =>
         OfflineSent(clients[i].ws, conns[c].email)
C10_DisconnectGoesOffline ==
  /\ [][/\ \A c \in 1..Len(conns) :
             (ret'.op = "close" /\ ret'.conn = c
                /\ (Registered(c) \/ conns[c].terminated))
               => DisconnectionHandled(c)'
        /\ ret'.op = "heartbeat" =>
             \A c \in 1..Len(conns) :
               (Registered(c) /\ ~conns[c].isAlive) =>
                 (~Registered(c)' /\ conns'[c].readyState # "OPEN")]_vars
  /\ <>[](\A c \in 1..Len(conns) :
            conns[c].terminated => conns[c].readyState = "CLOSED")

\* C10 witness: the close event of a socket the heartbeat terminated has just
\* sent the offline frame to another registered open connection.
C10_TerminatedWentOffline ==
  /\ ret.op = "close"
  /\ conns[ret.conn].terminated
  /\ DisconnectionHandled(ret.conn)
  /\ \E i \in 1..Len(clients) :
       /\ conns[clients[i].ws].readyState = "OPEN"
       /\ OfflineSent(clients[i].ws, conns[ret.conn].email)

\* C8: after an explicit disconnect() there is no automatic reconnect: until
\* connect() is called again or authorization changes, no reconnect timer is
\* pending (the close event of the socket that disconnect() closed schedules
\* none) and the retry counter is 0.
C8_NoReconnectAfterDisconnect ==
  agent.explicitlyDisconnected =>
    (~agent.reconnectTimeout.pending /\ agent.reconnectAttempts = 0)

\* C9: the client agent holds at most one WebSocket that is connecting or
\* open.
LiveSockets == {s \in 1..Len(agent.sockets) :
                  agent.sockets[s].readyState \in {"CONNECTING", "OPEN"}}
C9_AtMostOneLiveSocket == Cardinality(LiveSockets) <= 1

\* C11: a connection that answers no liveness ping is terminated and removed
\* from the registry no later than the second sweep after its last liveness
\* signal: a sweep finds no admitted, unclosed connection with its liveness
\* flag clear (cleared by an earlier sweep, no pong since) without
\* terminating it and leaving it out of the registry; and from then on, while
\* the identity has no registered connection, notifyNewMessage for it sends
\* no frame and changes no state.
C11_SilentConnectionTerminated ==
  [][/\ ret'.op = "heartbeat" =>
          \A c \in 1..Len(conns) :
            (conns[c].pc = "registered" /\ conns[c].readyState # "CLOSED"
               /\ ~conns[c].isAlive)
              => (conns'[c].terminated /\ ~Registered(c)')
     /\ \A c \in 1..Len(conns) :
          (/\ ret'.op = "notifyNewMessage"
           /\ conns[c].terminated
           /\ ret'.recipientEmail = conns[c].email
           /\ \A i \in 1..Len(clients) : conns[clients[i].ws].email # conns[c].email)
            => (frames' = << >> /\ conns' = conns /\ clients' = clients
                  /\ users' = users)]_vars

\* C12: when handleConnection has admitted a connection with a valid token,
\* the identity is online, the online presence frame went to every other
\* registered open connection and not to the new connection itself, and
\* the new connection received the authentication confirmation frame.
OnlineSent(c, email) ==
  \E i \in 1..Len(frames) :
    /\ frames[i].to = c
    /\ frames[i].frame.type = "presence"
    /\ frames[i].frame.data = [email |-> email, status |-> "online"]
AuthSent(c) ==
  \E i \in 1..Len(frames) :
    /\ frames[i].to = c
    /\ frames[i].frame.type = "auth"
    /\ frames[i].frame.data = [userId |-> conns[c].userId, status |-> "authenticated"]
C12_AdmissionAnnouncedToOthers ==
  (ret.op = "handleConnection" /\ conns[ret.conn].pc = "registered") =>
    /\ users[conns[ret.conn].userId].isOnline
    /\ \A i \in 1..Len(clients) :
         (clients[i].ws # ret.conn /\ conns[clients[i].ws].readyState = "OPEN")
           => OnlineSent(clients[i].ws, conns[ret.conn].email)
    /\ ~OnlineSent(ret.conn, conns[ret.conn].email)
    /\ AuthSent(ret.conn)

\* C13: the session sweep run at time t deletes exactly the sessions whose
\* expiresAt is before t: a session past its expiry is removed, and a session
\* not yet past its expiry stays in the store unchanged and a token of it
\* that jwt.verify passes is still accepted by verifyToken.
C13_CleanupDeletesExactlyExpired ==
  [][ret'.op = "cleanup" =>
       \A j \in DOMAIN sessions :
         /\ sessions[j].expiresAt < now => j \notin DOMAIN sessions'
         /\ ~(sessions[j].expiresAt < now) =>
              /\ j \in DOMAIN sessions'
              /\ sessions'[j] = sessions[j]
              /\ \A t \in issued :
                   (t.jti = j /\ JwtVerify(t)) => VerifyTokenValid(t)']_vars

\* C14: a nonce recorded by addUsedNonce is reported as used by isNonceUsed
\* for as long as an envelope stamped at the time of the recording still
\* passes the freshness check: pruning the set never removes a nonce that is
\* inside its freshness window.
C14_FreshNonceStaysRecorded ==
  \A n \in DOMAIN nonceStore.recordedAt :
    IsValidTimestamp(ToISOString(nonceStore.recordedAt[n]))
      => IsNonceUsedOf(nonceStore.usedNonces, n)

\* C15: in any sequence of isReplayAttack calls on one nonce set, the call
\* for nonce n returns true iff n was presented in an earlier call; a first
\* presentation returns false and adds n to the set, and presenting one
\* nonce never changes the answer for a different nonce.
C15_ReplayIffPresentedBefore ==
  [][ret'.op = "isReplayAttack" =>
       /\ ret'.result <=> (ret'.nonce \in presented)
       /\ Contains(usedNonces', ret'.nonce)
       /\ \A m \in NonceInputs \ {ret'.nonce} :
            Contains(usedNonces', m) <=> Contains(usedNonces, m)]_vars
\* A repeat was answered true after two different nonces had been presented.
C15_RepeatAfterTwoNonces ==
  /\ ret.op = "isReplayAttack"
  /\ ret.result
  /\ Len(usedNonces) >= 2
  /\ usedNonces[1] = ret.nonce

\* C16: with register calls made one after another, at most one credential
\* exists per identifier: a register that reaches the existence check for an
\* identifier without a credential goes on to store one and returns success,
\* and one for an identifier that has a credential returns
\* 'User already exists' and changes neither the credential store nor the
\* session store.
C16_SequentialRegisterOncePerIdentifier ==
  /\ [](\A i, j \in 1..Len(users) : users[i].email = users[j].email => i = j)
  /\ [][/\ (reg[1].pc = "awaitLookup" /\ reg'[1].pc # "awaitLookup") =>
             IF GetUserByEmail(reg[1].email) # 0
             THEN /\ ret' = [op |-> "register", proc |-> 1, success |-> FALSE,
                             message |-> "User already exists"]
                  /\ users' = users
                  /\ sessions' = sessions
                  /\ issued' = issued
             ELSE ret'.op = "register.hashPassword"
        /\ (ret'.op = "register" /\ ret'.success) =>
             /\ ret'.user.id \in 1..Len(users')
             /\ users'[ret'.user.id].email = ret'.user.email
             /\ ret'.tokens.accessToken.jti \in DOMAIN sessions'
             /\ sessions'[ret'.tokens.accessToken.jti].userId = ret'.user.id]_vars
\* A second register of a registered identifier was refused.
C16_SecondRegisterRefused ==
  /\ ret.op = "register"
  /\ ~ret.success
  /\ ret.message = "User already exists"
  /\ Len(users) = 1

\* C17: login with an unknown identifier and login with a known identifier
\* but a wrong password return the same result, success false and message
\* 'Invalid credentials' with no user, no tokens and no key blob, and
\* neither call changes presence, the session store or the credential store.
InvalidCredentials == [success |-> FALSE, message |-> "Invalid credentials"]
UnknownIdentifier(email) == \A i \in 1..Len(users) : users[i].email # email
WrongPassword(email, password) ==
  \E i \in 1..Len(users) :
    /\ users[i].email = email
    /\ users[i].encryptedPrivateKey.under # password
C17_FailedLoginsIndistinguishable ==
  [][(/\ ret'.op = "login"
      /\ \/ UnknownIdentifier(ret'.email)
         \/ WrongPassword(ret'.email, ret'.password))
       => /\ ret'.result = InvalidCredentials
          /\ users' = users
          /\ sessions' = sessions
          /\ issued' = issued]_vars
\* Both failures have happened: the last call had one cause, and a user
\* exists, so the other cause was open to the caller as well.
C17_WrongPasswordRefused ==
  /\ ret.op = "login"
  /\ WrongPassword(ret.email, ret.password)
  /\ ret.result = InvalidCredentials
C17_UnknownIdentifierRefused ==
  /\ ret.op = "login"
  /\ UnknownIdentifier(ret.email)
  /\ Len(users) > 0
  /\ ret.result = InvalidCredentials

\* C18: register with a malformed identifier, or with a password that fails
\* the policy (at least 12 characters, an uppercase letter, a lowercase
\* letter, a digit and a symbol), returns failure with a specific reason
\* and leaves the credential store and the session store unchanged: no key
\* pair is stored, no session is created and no tokens are issued.
Malformed(email) == CountOf(email, At) # 1
MeetsPolicy(pw) ==
  /\ Len(pw) >= 12
  /\ \E i \in 1..Len(pw) : pw[i] \in Upper
  /\ \E i \in 1..Len(pw) : pw[i] \in Lower
  /\ \E i \in 1..Len(pw) : pw[i] \in Digit
  /\ \E i \in 1..Len(pw) : pw[i] \in Special
\* PwGood with one rule broken at a time.
PolicyProbes ==
  {PwGood, PwWeak, SubSeq(PwGood, 1, 11),
   [PwGood EXCEPT ![1] = "a"], [PwGood EXCEPT ![3] = "a"],
   [PwGood EXCEPT ![4] = "a"],
   <<"A", "B", "1", "!", "A", "A", "A", "A", "A", "A", "A", "A">>}
C18_InvalidInputsRegisterNothing ==
  /\ [](\A pw \in PolicyProbes :
          (ValidatePasswordErrors(pw) = << >>) <=> MeetsPolicy(pw))
  /\ [][\A e \in {EmailA, EmailBad}, pw \in RegisterPasswords :
          (RegisterCall(1, e, pw) /\ (Malformed(e) \/ ~MeetsPolicy(pw))) =>
            /\ ret'.op = "register"
            /\ ~ret'.success
            /\ ret'.message =
                 IF Malformed(e) THEN "Invalid email format"
                 ELSE Join(ValidatePasswordErrors(pw), ", ")
            /\ ret'.message \notin {"", "User already exists", "Registration failed"}
            /\ DOMAIN ret' = {"op", "proc", "success", "message"}
            /\ users' = users
            /\ sessions' = sessions
            /\ issued' = issued
            /\ nextKey' = nextKey
            /\ nextJti' = nextJti]_vars
\* register has just refused a weak password for a well-formed identifier,
\* naming the three rules it breaks.
C18_WeakPasswordRefused ==
  /\ ret.op = "register"
  /\ ~ret.success
  /\ ret.message = "Password must be at least 12 characters long, "
                   \o "Password must contain at least one uppercase letter, "
                   \o "Password must contain at least one special character"

BackoffUnits == <<1, 2, 4, 8, 16>>
ClosedInStep(s) ==
  /\ agent.sockets[s].readyState # "CLOSED"
  /\ agent'.sockets[s].readyState = "CLOSED"
C20_ReconnectBackoff ==
  /\ [](/\ agent.reconnectAttempts <= 5
        /\ agent.reconnectTimeout.pending =>
             agent.reconnectTimeout.delay <= 30 * BaseReconnectDelay)
  /\ [][\A s \in 1..Len(agent.sockets) :
          (ret'.op = "onclose" /\ ClosedInStep(s) /\ agent.isAuthenticated
             /\ agent.sockets[s].auth) =>
            IF agent.reconnectAttempts < 5
            THEN /\ agent'.reconnectTimeout.pending
                 /\ agent'.reconnectTimeout.delay =
                      BackoffUnits[agent.reconnectAttempts + 1] * BaseReconnectDelay
                 /\ agent'.reconnectAttempts = agent.reconnectAttempts + 1
            ELSE /\ ~agent'.reconnectTimeout.pending
                 /\ agent'.reconnectAttempts = agent.reconnectAttempts]_vars
\* The fifth failure in a row has scheduled the reconnect 16 units ahead.
C20_FifthRetryScheduled ==
  /\ ret.op = "onclose"
  /\ agent.isAuthenticated
  /\ agent.reconnectAttempts = 5
  /\ agent.reconnectTimeout.pending
  /\ agent.reconnectTimeout.delay = 16 * BaseReconnectDelay
\* A connection has closed with the counter at its limit: nothing scheduled.
C20_NoRetryAtLimit ==
  /\ ret.op = "onclose"
  /\ agent.isAuthenticated
  /\ agent.reconnectAttempts = 5
  /\ ~agent.reconnectTimeout.pending

\* C21: notifyNewMessage(recipient, payload) sends exactly one message frame
\* to the registered open connection whose identifier equals recipient and
\* to no other connection; when the recipient has no registered connection
\* it sends nothing; in both cases the registry, the liveness flags and
\* presence are unchanged.
MessageFramesTo(c) ==
  Cardinality({i \in 1..Len(frames) :
                 frames[i].to = c /\ frames[i].frame.type = "message"})
C21_NotifyReachesRecipientOnly ==
  [][ret'.op = "notifyNewMessage" =>
       /\ \A c \in 1..Len(conns) :
            MessageFramesTo(c)' =
              IF /\ Registered(c)
                 /\ conns[c].readyState = "OPEN"
                 /\ conns[c].email = ret'.recipientEmail
              THEN 1 ELSE 0
       /\ \A i \in 1..Len(frames') :
            /\ frames'[i].frame.type = "message"
            /\ frames'[i].frame.data = "m1"
       /\ (\A c \in 1..Len(conns) :
             Registered(c) => conns[c].email # ret'.recipientEmail)
            => frames' = << >>
       /\ clients' = clients
       /\ conns' = conns
       /\ users' = users]_vars
\* The recipient's connection got the frame while another identity's
\* registered open connection got none.
C21_OneFrameBesideOtherConnection ==
  /\ ret.op = "notifyNewMessage"
  /\ Len(frames) = 1
  /\ conns[frames[1].to].email = ret.recipientEmail
  /\ \E c \in 1..Len(conns) :
       /\ Registered(c)
       /\ conns[c].readyState = "OPEN"
       /\ conns[c].email # ret.recipientEmail

\* C22: for every inbound frame on a registered connection the connection
\* stays open and registered: a ping frame yields exactly one pong frame, a
\* presence frame with a status outside {online, away, busy} yields no frame
\* and no state change, and a frame of any other type yields exactly one
\* error frame.
C22_InboundFrameAnswers ==
  [][\A c \in 1..Len(conns) : \A m \in InboundFrames :
       (/\ ret' = [op |-> "handleMessage", conn |-> c, message |-> m]
        /\ m.parses
        /\ Registered(c)) =>
         /\ Registered(c)'
         /\ conns'[c].readyState = "OPEN"
         /\ m.type = "ping" =>
              /\ Len(frames') = 1
              /\ frames'[1].to = c
              /\ frames'[1].frame.type = "pong"
         /\ (m.type = "presence" /\ m.status \notin {"online", "away", "busy"}) =>
              /\ frames' = << >>
              /\ users' = users
              /\ conns' = conns
              /\ clients' = clients
         /\ m.type \notin {"ping", "presence"} =>
              /\ Len(frames') = 1
              /\ frames'[1].to = c
              /\ frames'[1].frame.type = "error"]_vars

\* C23: the heartbeat never terminates a connection that answered the
\* previous sweep's ping before the current sweep; each sweep terminates and
\* removes exactly the admitted connections whose liveness flag is clear,
\* and pings every other one and clears its liveness flag.
Admitted(c) ==
  /\ conns[c].pc = "registered"
  /\ conns[c].readyState # "CLOSED"
  /\ ~conns[c].terminated
C23_SweepTerminatesExactlySilent ==
  [][ret'.op = "heartbeat" =>
       /\ \A c \in 1..Len(conns) :
            (Admitted(c) /\ conns[c].isAlive) =>
              /\ ~conns'[c].terminated
              /\ conns'[c].readyState = conns[c].readyState
              /\ ~conns'[c].isAlive
       /\ \A c \in 1..Len(conns) :
            (Admitted(c) /\ ~conns[c].isAlive) =>
              /\ conns'[c].terminated
              /\ ~Registered(c)'
       /\ ret'.terminated = {c \in 1..Len(conns) : Admitted(c) /\ ~conns[c].isAlive}]_vars

\* C24: after every addUsedNonce call the tracked set holds at most
\* NonceSetLimit nonces (10,000 in the program), none twice, and contains
\* the nonce just added; the call that pushes the set past the limit leaves
\* exactly the NonceSetKeep (5,000) most recently inserted nonces.
C24_NonceSetBounded ==
  [][ret'.op = "addUsedNonce" =>
       LET used == nonceStore.usedNonces
           after == nonceStore'.usedNonces
           grown == used \o <<ret'.nonce>>
       IN /\ Len(after) <= NonceSetLimit
          /\ \A i, j \in 1..Len(after) : after[i] = after[j] => i = j
          /\ \E i \in 1..Len(after) : after[i] = ret'.nonce
          /\ (Len(used) = NonceSetLimit /\ \A i \in 1..Len(used) : used[i] # ret'.nonce)
               => /\ Len(after) = NonceSetKeep
                  /\ \A k \in 1..NonceSetKeep :
                       after[k] = grown[Len(grown) - NonceSetKeep + k]
          /\ (Len(used) < NonceSetLimit /\ \A i \in 1..Len(used) : used[i] # ret'.nonce)
               => after = grown
          /\ (\E i \in 1..Len(used) : used[i] = ret'.nonce) => after = used]_vars
\* The insertion that crossed the limit has just pruned the set.
C24_PrunedToNewestHalf ==
  /\ ret.op = "addUsedNonce"
  /\ Len(nonceStore.usedNonces) = NonceSetKeep
  /\ Cardinality(DOMAIN nonceStore.recordedAt) = NonceSetLimit + 1
  /\ nonceStore.usedNonces[NonceSetKeep] = ret.nonce

\* C25: validateMessage evaluates every check (version, type, sender
\* address, recipient address, timestamp freshness, nonce length, payload
\* size, signature) and reports one error for each check that fails;
\* isValid is true iff every check passes.
FailedChecks(m, publicKey) ==
  {e \in {"Invalid protocol version", "Invalid message type", "Invalid sender email",
          "Invalid recipient email", "Invalid or expired timestamp", "Invalid nonce",
          "Message payload too large", "Invalid message signature"} :
     \/ e = "Invalid protocol version" /\ m.version # <<"1", ".", "0">>
     \/ e = "Invalid message type" /\ m.type \notin MessageTypes
     \/ e = "Invalid sender email" /\ ~ValidateEmail(m.from)
     \/ e = "Invalid recipient email" /\ ~ValidateEmail(m.to)
     \/ e = "Invalid or expired timestamp" /\ ~IsValidTimestamp(m.timestamp)
     \/ e = "Invalid nonce" /\ StrLen(m.nonce) # 64
     \/ e = "Message payload too large" /\ StrLen(m.payload) > MAX_MESSAGE_SIZE
     \/ e = "Invalid message signature"
          /\ ~(m.signature.over = SignatureData(m) /\ <<"pub", m.signature.by>> = publicKey)}
C25_EveryFailedCheckReported ==
  ret.op = "validateMessage" =>
    /\ {ret.errors[i] : i \in 1..Len(ret.errors)} = FailedChecks(ret.message, ret.publicKey)
    /\ Len(ret.errors) = Cardinality(FailedChecks(ret.message, ret.publicKey))
    /\ ret.isValid <=> FailedChecks(ret.message, ret.publicKey) = {}
\* An envelope that fails three checks got three errors.
C25_ThreeErrorsReported ==
  /\ ret.op = "validateMessage"
  /\ Len(ret.errors) >= 3

\* C26: isValidTimestamp with the default window accepts a timestamp iff
\* its age (now minus timestamp) is between 0 and 300,000 ms inclusive: a
\* future timestamp and one older than 5 minutes are rejected, a timestamp
\* exactly at the window edge is accepted, and an unparseable timestamp is
\* rejected.
AcceptedTimestamps ==
  {<<IsoStrings[t + 1]>> : t \in {u \in 0..(Len(IsoStrings) - 1) : u <= now /\ now - u <= MaxTimestampAge}}
TimestampAccepted ==
  \A i \in 1..Len(ret.errors) : ret.errors[i] # "Invalid or expired timestamp"
C26_TimestampWindow ==
  ret.op = "validateMessage" =>
    (TimestampAccepted <=> ret.message.timestamp \in AcceptedTimestamps)
\* A timestamp exactly one window old was accepted.
C26_WindowEdgeAccepted ==
  /\ ret.op = "validateMessage"
  /\ now = MaxTimestampAge
  /\ ret.message.timestamp = <<"T0">>
  /\ TimestampAccepted

\* C27: every envelope returned by an envelope constructor (createMessage
\* with valid addresses, createHandshakeMessage, createSecureMessage,
\* createAckMessage, createPresenceMessage) is accepted by validateMessage
\* with the signer's public key, with zero errors, when validated within
\* the freshness window.
WithinFreshnessWindow(m) ==
  \E t \in 0..now : m.timestamp = ToISOString(t) /\ now - t <= MaxTimestampAge
C27_ConstructedEnvelopesValidate ==
  (/\ ret.op = "validateMessage"
   /\ ret.message \in sent
   /\ ret.publicKey = <<"pub", ret.message.signature.by>>
   /\ WithinFreshnessWindow(ret.message))
  => ret.isValid /\ ret.errors = << >>

\* C28: for any two registered identities A and B with the key pairs
\* generated at registration, deriveSharedSecret(A.private, B.public)
\* succeeds and equals deriveSharedSecret(B.private, A.public), so a payload
\* encrypted by A under its derivation is recovered unchanged by B under
\* its derivation.
C28_SharedSecretAgrees ==
  ret.op = "deriveSharedSecret" =>
    LET a == ret.data[1]
        b == ret.data[2]
        mirrored == DeriveSharedSecretOf(users[b].encryptedPrivateKey.sealed,
                                         users[a].publicKey)
    IN /\ ret.result.ok
       /\ mirrored.ok
       /\ ret.result.value = mirrored.value

\* C29: decrypt(blob, k) returns plaintext p only when blob is an
\* unmodified output of encrypt(p, k) under the same key k; for a blob
\* whose iv, data or tag was altered, or for a different key, decrypt fails
\* with an error before transforming any ciphertext and returns no
\* plaintext.
OutputOfEncrypt(blob, p, key) ==
  \E i \in 1..Len(IvBytes) : blob = EncryptOf(p, key, RandomIv(i))
C29_DecryptOnlyUnmodified ==
  ret.op = "decrypt" =>
    /\ ret.result.ok => OutputOfEncrypt(ret.blob, ret.result.value, ret.key)
    /\ (\A p \in Plaintexts : ~OutputOfEncrypt(ret.blob, p, ret.key)) =>
         /\ ~ret.result.ok
         /\ ret.result.value = << >>
         /\ ret.result.error # "bad decrypt"

\* C30: logout, refreshToken and the session sweep leave the connection
\* registry unchanged: a live connection admitted with a token whose
\* session is later refreshed, revoked or swept stays registered, is not
\* closed, and still receives frames.
SessionOps == {"logout", "refreshToken", "cleanup"}
C30_SessionChangesLeaveRegistry ==
  [][/\ ret'.op \in SessionOps => (clients' = clients /\ conns' = conns)
     /\ ret'.op = "notifyNewMessage" =>
          \A i \in 1..Len(clients) :
            (/\ conns[clients[i].ws].readyState = "OPEN"
             /\ conns[clients[i].ws].email = ret'.recipientEmail
             /\ \A j \in 1..(i - 1) : conns[clients[j].ws].email # ret'.recipientEmail)
            => /\ Registered(clients[i].ws)'
               /\ conns'[clients[i].ws].readyState = "OPEN"
               /\ MessageFramesTo(clients[i].ws)' = 1]_vars
\* A connection whose session was revoked after its admission got a frame.
C30_FrameAfterSessionRevoked ==
  /\ ret.op = "notifyNewMessage"
  /\ \E c \in 1..Len(conns) :
       /\ Registered(c)
       /\ conns[c].readyState = "OPEN"
       /\ conns[c].token.jti \notin DOMAIN sessions
       /\ MessageFramesTo(c) = 1

\* C31: a successful refreshToken creates a session record under a new
\* session id that expires 7 days after the refresh, leaves the old session
\* record unmodified, and returns an access/refresh pair that verifyToken
\* accepts; a failed refreshToken changes no session.
C31_RefreshSupersedesSession ==
  /\ [](ret.op = "refreshToken" /\ ret.success =>
          /\ VerifyTokenValid(ret.tokens.accessToken)
          /\ VerifyTokenValid(ret.tokens.refreshToken))
  /\ [][ret'.op = "refreshToken" =>
          IF ret'.success
          THEN LET created == DOMAIN sessions' \ DOMAIN sessions
               IN /\ created = {ret'.tokens.accessToken.jti}
                  /\ ret'.tokens.refreshToken.jti = ret'.tokens.accessToken.jti
                  /\ \A j \in created :
                       /\ sessions'[j].sessionId = j
                       /\ sessions'[j].expiresAt = now' + SessionLifetime
                       /\ sessions'[j].userId = ret'.token.userId
                  /\ \A k \in DOMAIN sessions :
                       k \in DOMAIN sessions' /\ sessions'[k] = sessions[k]
          ELSE sessions' = sessions]_vars
\* A refresh succeeded beside the session it was made from.
C31_RefreshedBesideOldSession ==
  /\ ret.op = "refreshToken"
  /\ ret.success
  /\ ret.token.jti \in DOMAIN sessions
  /\ ret.tokens.accessToken.jti \in DOMAIN sessions
  /\ ret.tokens.accessToken.jti # ret.token.jti

\* C32: in every reachable state of the client agent a ping timer is
\* running iff the agent's current connection is open: the open event
\* starts it and resets the retry counter to 0, and close or disconnect
\* cancels it, under any interleaving of connect, open, close and
\* disconnect events of an old and a new socket.
C32_PingTimerIffOpen ==
  /\ (agent.intervals > 0) <=> (RefState(agent) = "OPEN")
  /\ ret.op = "onopen" => agent.reconnectAttempts = 0
  /\ ret.op \in {"onclose", "disconnect"} => agent.intervals = 0

\* C33: after a presence-update frame with status s in {online, away, busy}
\* from a registered connection, the identity's isOnline equals
\* (s = online), its lastSeen is refreshed, the connection stays registered,
\* and a presence frame {identifier, s} is broadcast to the registered open
\* connections.
PresenceFramesTo(d, email, status) ==
  Cardinality({i \in 1..Len(frames) :
                 /\ frames[i].to = d
                 /\ frames[i].frame.type = "presence"
                 /\ frames[i].frame.data = [email |-> email, status |-> status]})
PresenceUpdateApplied(c, m) ==
  /\ users'[conns[c].userId].isOnline = (m.status = "online")
  /\ users'[conns[c].userId].lastSeen = now'
  /\ Registered(c)'
  /\ \A d \in 1..Len(conns) :
       PresenceFramesTo(d, conns[c].email, m.status)' =
         IF Registered(d) /\ conns[d].readyState = "OPEN" THEN 1 ELSE 0
C33_PresenceUpdateMirrored ==
  [][\A c \in 1..Len(conns) : \A m \in InboundFrames :
       (/\ ret' = [op |-> "handleMessage", conn |-> c, message |-> m]
        /\ m.parses
        /\ m.type = "presence"
        /\ m.status \in {"online", "away", "busy"}
        /\ Registered(c)) => PresenceUpdateApplied(c, m)]_vars

\* C34: constantTimeCompare(a, b) returns true iff a and b are the same
\* string, returns false when their lengths differ, and never throws for
\* any pair of strings.
C34_CompareTotalAndExact ==
  ret.op = "constantTimeCompare" =>
    /\ ~ret.result.threw
    /\ ret.result.value <=> (ret.a = ret.b)
    /\ Len(ret.a) # Len(ret.b) => ~ret.result.value

\* C35: when two connections of the same identity are admitted one after
\* the other and the older one then closes, the newer connection stays in
\* the registry and reachable by notifyNewMessage, and the identity is not
\* marked offline while that newer connection is open.
NewerOpenConnection(c, d) ==
  /\ d > c
  /\ conns[d].pc = "registered"
  /\ conns[d].userId = conns[c].userId
  /\ conns[d].readyState = "OPEN"
  /\ Registered(d)
C35_OlderCloseKeepsNewer ==
  [][/\ \A c \in 1..Len(conns) : \A d \in 1..Len(conns) :
          (/\ ret'.op = "close"
           /\ ret'.conn = c
           /\ conns[c].pc = "registered"
           /\ NewerOpenConnection(c, d)) =>
            /\ Registered(d)'
            /\ users'[conns[d].userId].isOnline
     /\ \A d \in 1..Len(conns) :
          (/\ ret'.op = "notifyNewMessage"
           /\ conns[d].pc = "registered"
           /\ conns[d].readyState = "OPEN"
           /\ conns[d].email = ret'.recipientEmail
           /\ \A e \in 1..Len(conns) :
                (e > d /\ conns[e].pc = "registered") => conns[e].userId # conns[d].userId)
          => MessageFramesTo(d)' = 1]_vars

\* C36: the client agent never starts a connection attempt while the caller
\* is not authorized: when authorization is lost the connection is closed,
\* and no pending reconnect timer or late close event of the old socket
\* starts a new attempt or moves the agent out of the disconnected state.
C36_NoAttemptWhileUnauthorized ==
  /\ [](~agent.isAuthenticated =>
          /\ \A s \in 1..Len(agent.sockets) :
               agent.sockets[s].readyState \notin {"CONNECTING", "OPEN"}
          /\ agent.connectionState = "disconnected")
  /\ [][~agent'.isAuthenticated => Len(agent'.sockets) = Len(agent.sockets)]_vars

\* ------------------------------------------- LuminaWebClient.makeRequest
\* The calls of makeRequest in flight form a chain: each one but the last
\* awaits the refreshToken() it called, which awaits the next one.
MaxCallDepth == 3
\* Token pairs the server grants in one run.
MaxGrants == 2

LoginEndpoint == "/api/auth/login"
RefreshEndpoint == "/api/auth/refresh"
InboxEndpoint == "/api/messages/inbox"

\* What fetch resolves with: an HTTP status, or 0 when fetch rejects; the
\* body's success flag is set on 200 only.
Statuses == {0, 200, 401, 500}
ResponseData(status) == [status |-> status, success |-> status = 200]
NetworkError == ResponseData(0)

CallFrame(endpoint) == [endpoint |-> endpoint, pc |-> "fetch", data |-> NetworkError]

\* login() and refreshToken() store the tokens of a successful answer.
\* refreshToken() assigns to this.session.accessToken, which throws once
\* logout() has set the session to null: it then returns a failure.
GrantedSession(r) ==
  [held |-> TRUE, accessToken |-> r.granted + 1, refreshToken |-> r.granted + 1]
AfterWrapper(r, endpoint, value) ==
  IF value.success /\ (endpoint = LoginEndpoint
                       \/ (endpoint = RefreshEndpoint /\ r.session.held))
  THEN [r EXCEPT !.session = GrantedSession(r), !.granted = @ + 1]
  ELSE r
WrapperValue(r, endpoint, value) ==
  IF endpoint = RefreshEndpoint /\ value.success /\ ~r.session.held
  THEN [value EXCEPT !.success = FALSE]
  ELSE value

\* makeRequest(endpoint) resolves with `value`. A caller below it in the
\* chain is a makeRequest awaiting refreshToken(): on success it fetches its
\* own url once more, otherwise it returns the data of its first answer.
RECURSIVE ReturnTo(_, _, _)
ReturnTo(r, endpoint, value) ==
  LET r1 == AfterWrapper(r, endpoint, value)
      v1 == WrapperValue(r, endpoint, value)
      n == Len(r1.calls)
  IN IF n = 0 THEN [r1 EXCEPT !.result = v1]
     ELSE IF v1.success
          THEN [r1 EXCEPT !.calls[n].pc = "retry", !.retries = @ + 1]
          ELSE ReturnTo([r1 EXCEPT !.calls = SubSeq(@, 1, n - 1)],
                        r1.calls[n].endpoint, r1.calls[n].data)

\* A public method of the client calls makeRequest(endpoint, ...): up to the
\* await of fetch.
MakeRequest(endpoint) ==
  /\ request.calls = << >>
  /\ request' = [request EXCEPT !.calls = <<CallFrame(endpoint)>>,
                                !.refreshCalls = 0, !.retries = 0]
  /\ ret' = [op |-> "makeRequest", endpoint |-> endpoint]
  /\ UNCHANGED <<authVars, envVars, wsVars, agent, messages>>

\* refreshToken() called by the application.
LuminaRefreshToken ==
  /\ request.calls = << >>
  /\ request' = IF ~request.session.held
                THEN [request EXCEPT !.result = NetworkError,
                                     !.refreshCalls = 0, !.retries = 0]
                ELSE [request EXCEPT !.calls = <<CallFrame(RefreshEndpoint)>>,
                                     !.refreshCalls = 0, !.retries = 0]
  /\ ret' = [op |-> "refreshToken", endpoint |-> RefreshEndpoint]
  /\ UNCHANGED <<authVars, envVars, wsVars, agent, messages>>

\* The fetch awaited by the innermost makeRequest settles with `status`.
\* A 401 on the first fetch, with a refresh token in the session, calls
\* refreshToken(), which calls makeRequest('/api/auth/refresh'); the answer
\* of a retry is returned as it is.
FetchSettles(status) ==
  /\ request.calls # << >>
  /\ LET n == Len(request.calls)
         top == request.calls[n]
         data == ResponseData(status)
     IN /\ (status = 200 /\ top.endpoint \in {LoginEndpoint, RefreshEndpoint})
             => request.granted < MaxGrants
        /\ request' =
             IF top.pc = "fetch" /\ status = 401 /\ request.session.held
             THEN [request EXCEPT
                     !.calls = Append([@ EXCEPT ![n].pc = "refresh", ![n].data = data],
                                      CallFrame(RefreshEndpoint)),
                     !.refreshCalls = @ + 1]
             ELSE ReturnTo([request EXCEPT !.calls = SubSeq(@, 1, n - 1)],
                           top.endpoint, data)
        /\ Len(request'.calls) <= MaxCallDepth
  /\ ret' = [op |-> "fetch", endpoint |-> request.calls[Len(request.calls)].endpoint]
  /\ UNCHANGED <<authVars, envVars, wsVars, agent, messages>>

\* logout(): this.session = null, at any moment.
LuminaLogout ==
  /\ request' = [request EXCEPT !.session = NoClientSession]
  /\ ret' = [op |-> "clientLogout", endpoint |-> ""]
  /\ UNCHANGED <<authVars, envVars, wsVars, agent, messages>>

RequestNext ==
  \/ \E e \in {LoginEndpoint, InboxEndpoint} : MakeRequest(e)
  \/ LuminaRefreshToken
  \/ \E status \in Statuses : FetchSettles(status)
  \/ LuminaLogout

RequestSpec == Init /\ [][RequestNext]_vars

\* C37: while one call of a public client method is running, the 401 answers
\* it meets make makeRequest call refreshToken at most once and fetch the
\* original request again at most once, whatever the server answers, the
\* refresh endpoint's own 401 included; the chain of calls never grows past
\* the request and its one refresh.
C37_OneRefreshPerRequest ==
  /\ request.refreshCalls <= 1
  /\ request.retries <= 1
  /\ Len(request.calls) <= 2

\* C38: verifyToken never answers valid for a token that register, login or
\* refreshToken handed out (the access or the refresh token of a pair) once
\* more than the access-token lifetime has passed since the token was issued.
C38_NoAcceptancePastAccessLifetime ==
  [][(ret'.op = "verifyToken" /\ ret'.token \in issued /\ ret'.valid)
       => now' <= ret'.token.iat + ACCESS_TOKEN_EXPIRY]_vars

\* --------------------------------------------- AuthService.changePassword
\* getUserById returns the stored object itself, so the assignment to
\* user.passwordHash changes the store; no other field is written.
ChangePassword(userId, oldPassword, newPassword) ==
  /\ IF userId \notin 1..Len(users)
     THEN /\ ret' = [op |-> "changePassword", userId |-> userId, success |-> FALSE,
                     message |-> "User not found"]
          /\ UNCHANGED users
     ELSE IF ~VerifyPassword(oldPassword, users[userId].passwordHash)
     THEN /\ ret' = [op |-> "changePassword", userId |-> userId, success |-> FALSE,
                     message |-> "Current password is incorrect"]
          /\ UNCHANGED users
     ELSE IF ValidatePasswordErrors(newPassword) # << >>
     THEN /\ ret' = [op |-> "changePassword", userId |-> userId, success |-> FALSE,
                     message |-> Join(ValidatePasswordErrors(newPassword), ", ")]
          /\ UNCHANGED users
     ELSE /\ users' = [users EXCEPT ![userId].passwordHash = HashPassword(newPassword)]
          /\ ret' = [op |-> "changePassword", userId |-> userId, success |-> TRUE,
                     message |-> "Password changed successfully"]
  /\ UNCHANGED <<sessions, issued, now, nextJti, nextKey, reg>>
  /\ UNCHANGED envVars
  /\ UNCHANGED <<wsVars, agent, request, messages>>

Passwords == {PwGood, PwOther, PwWeak}

CredentialNext ==
  \/ \E e \in {EmailA, EmailB}, pw \in RegisterPasswords : RegisterCall(1, e, pw)
  \/ RegisterAfterLookup(1)
  \/ RegisterAfterHash(1)
  \/ RegisterAfterStore(1)
  \/ RegisterAfterTokens(1)
  \/ \E u \in 1..(MaxUsers + 1), old \in Passwords, new \in Passwords :
       ChangePassword(u, old, new)
  \/ \E e \in {EmailA, EmailB}, pw \in Passwords : Login(e, pw)

CredentialSpec == Init /\ [][CredentialNext]_vars

\* C39: every stored credential's encryptedPrivateKey opens under each
\* password that verifies against the credential's passwordHash, after any
\* sequence of register and changePassword.
C39_PrivateKeyOpensUnderCurrentPassword ==
  \A i \in 1..Len(users) : \A pw \in Passwords :
     VerifyPassword(pw, users[i].passwordHash)
       => DecryptsWithPassword(users[i].encryptedPrivateKey, pw)

\* ------------------------------------------------- SecureStorage.messages
\* Messages stored in one run.
MaxStored == 2

\* storeMessage: a fresh id from generateMessageId, the subject kept under
\* the storage key, isRead = false.
StoreMessage(from, to, subject) ==
  LET messageId == messages.drawn + 1 IN
  /\ messages.drawn < MaxStored
  /\ messages' = [stored |-> [m \in DOMAIN messages.stored \cup {messageId} |->
                                IF m = messageId
                                THEN [id |-> messageId, from |-> from, to |-> to,
                                      encryptedSubject |-> [sealed |-> subject,
                                                            under |-> "storageKey"],
                                      timestamp |-> now, isRead |-> FALSE]
                                ELSE messages.stored[m]],
                  drawn |-> messageId]
  /\ ret' = [op |-> "storeMessage", id |-> messageId]
  /\ UNCHANGED <<authVars, envVars, wsVars, agent, request>>

\* getMessage: the decrypted payload, or null (<< >>) for an unknown id.
GetMessage(ms, messageId) ==
  IF messageId \in DOMAIN ms.stored
  THEN <<[subject |-> ms.stored[messageId].encryptedSubject.sealed]>>
  ELSE << >>
MarkAsRead(ms, messageId) ==
  IF messageId \in DOMAIN ms.stored
  THEN [ms EXCEPT !.stored[messageId].isRead = TRUE]
  ELSE ms
DeleteMessage(ms, messageId) ==
  [ms EXCEPT !.stored = [m \in DOMAIN ms.stored \ {messageId} |-> ms.stored[m]]]

\* /api/messages/[id]: withAuth, withRateLimit, validateMethodAllowed, then
\* messageHandler. `limited` is the rate limiter's verdict.
Methods == {"GET", "DELETE", "PUT"}
Answer(tok, method, messageId, status, data) ==
  [op |-> "messageHandler", token |-> tok, method |-> method, id |-> messageId,
   status |-> status, data |-> data]
MessageHandler(tok, limited, method, messageId) ==
  /\ IF ~VerifyTokenValid(tok)
     THEN /\ ret' = Answer(tok, method, messageId, 401, << >>)
          /\ UNCHANGED messages
     ELSE IF limited
     THEN /\ ret' = Answer(tok, method, messageId, 429, << >>)
          /\ UNCHANGED messages
     ELSE IF method \notin {"GET", "DELETE"}
     THEN /\ ret' = Answer(tok, method, messageId, 405, << >>)
          /\ UNCHANGED messages
     ELSE IF method = "GET"
     THEN IF GetMessage(messages, messageId) = << >>
          THEN /\ ret' = Answer(tok, method, messageId, 404, << >>)
               /\ UNCHANGED messages
          ELSE /\ messages' = MarkAsRead(messages, messageId)
               /\ ret' = Answer(tok, method, messageId, 200,
                                GetMessage(messages, messageId))
     ELSE IF messageId \notin DOMAIN messages.stored
          THEN /\ ret' = Answer(tok, method, messageId, 404, << >>)
               /\ UNCHANGED messages
          ELSE /\ messages' = DeleteMessage(messages, messageId)
               /\ ret' = Answer(tok, method, messageId, 200, << >>)
  /\ UNCHANGED <<authVars, envVars, wsVars, agent, request>>

MessageNext ==
  \/ \E from \in {EmailA, EmailB}, to \in {EmailA, EmailB} :
       StoreMessage(from, to, <<"h", "i">>)
  \/ \E tok \in TokenInputs, limited \in BOOLEAN, method \in Methods,
        messageId \in 1..(MaxStored + 1) :
       MessageHandler(tok, limited, method, messageId)

MessageSpec == WsStart /\ [][MessageNext]_vars

\* C40: a GET or DELETE of a stored message by a caller whose token names
\* an identity other than the message's recipient is answered with an error
\* and leaves the message store as it was.
C40_OnlyRecipientReadsOrDeletes ==
  [][(/\ ret'.op = "messageHandler"
      /\ ret'.method \in {"GET", "DELETE"}
      /\ ret'.id \in DOMAIN messages.stored
      /\ messages.stored[ret'.id].to # ret'.token.email)
       => (ret'.status # 200 /\ messages' = messages)]_vars
====
